---- MODULE Spec2Model ----
(***************************************************************************)
(* Job store and three-agent analysis runner of code-scanner-ai.            *)
(*                                                                         *)
(* One job is modelled.  The job record holds the fields of the Job        *)
(* interface of job-store.ts; `events` is the stream of JobEvent objects   *)
(* that emitEvent hands to a subscriber; `now` stands for Date.now().      *)
(* Every action is one synchronous block of JavaScript: the code that runs *)
(* between two awaits of real I/O (a model completion call or a write of   *)
(* the debug file), or one HTTP handler.                                   *)
(***************************************************************************)
EXTENDS Integers, Sequences, FiniteSets, TLC

VARIABLES job, events, now, last, pc, run, stream

vars == <<job, events, now, last, pc, run, stream>>

(***************************************************************************)
(* Bounds of the model                                                     *)
(***************************************************************************)
\* number of job-store calls in a behaviour of StoreSpec
MaxOps == 4

\* number of job-store calls in a behaviour of StreamSpec
MaxStreamOps == 3

(***************************************************************************)
(* job-store.ts                                                            *)
(***************************************************************************)
JobStatus == {"pending", "running", "completed", "failed", "cancelled"}

Terminal == {"completed", "failed", "cancelled"}

\* field values standing for `undefined`
Unset == 0
NoResult == [undefined |-> TRUE]
NoError == "none"

\* job.abortController: absent, present, present with signal.aborted
AbortStates == {"absent", "idle", "aborted"}

\* a log message: the template of the source and what the handlers of the
\* runner look for in it (the [i/N] counter, text supplied by the model)
Msg(tpl) == [tpl |-> tpl, i |-> 0, payload |-> "plain"]

MsgIdx(tpl, i) == [tpl |-> tpl, i |-> i, payload |-> "plain"]

MsgWith(tpl, payload) == [tpl |-> tpl, i |-> 0, payload |-> payload]

createJob ==
  [ status |-> "pending",
    createdAt |-> 0,
    startedAt |-> Unset,
    completedAt |-> Unset,
    logs |-> << >>,
    progress |-> [current |-> 0, stage |-> "Initializing"],
    result |-> NoResult,
    error |-> NoError,
    abortController |-> "absent" ]

\* The store as one value: the job and the events emitted so far.
Store(j, ev) == [job |-> j, events |-> ev]

emitEvent(s, type, data) ==
  [s EXCEPT !.events = Append(@, [type |-> type, data |-> data])]

\* an addLog that puts the entry at the head of job.logs
addLogUnshift(s, level, message) ==
  LET log == [level |-> level, message |-> message]
      s1 == [s EXCEPT !.job.logs = <<log>> \o @]
  IN  [s1 EXCEPT !.events = Append(@, [type |-> "log", data |-> log])]

addLog(s, level, message) ==
  LET log == [level |-> level, message |-> message]
      s1 == [s EXCEPT !.job.logs = Append(@, log)]
  IN  emitEvent(s1, "log", log)

updateProgress(s, current, stage) ==
  LET s1 == [s EXCEPT !.job.progress = [current |-> current, stage |-> stage]]
  IN  emitEvent(s1, "progress", s1.job.progress)

updateStatus(s, status, t) ==
  LET s1 == [s EXCEPT !.job.status = status]
      s2 == IF status = "running" /\ s1.job.startedAt = Unset
              THEN [s1 EXCEPT !.job.startedAt = t]
              ELSE s1
      s3 == IF status \in Terminal
              THEN [s2 EXCEPT !.job.completedAt = t]
              ELSE s2
  IN  emitEvent(s3, "status", status)

setAbortController(s) ==
  [s EXCEPT !.job.abortController = "idle"]

\* a cancelJob that lacks the guard on the status
cancelJobUnguarded(s) ==
  TRUE

\* The value cancelJob returns.
cancelJobReturn(s) ==
  s.job.status \in {"running", "pending"}

cancelJob(s, t) ==
  IF ~ cancelJobReturn(s)
    THEN s
    ELSE LET s1 == IF s.job.abortController # "absent"
                     THEN [s EXCEPT !.job.abortController = "aborted"]
                     ELSE s
             s2 == [s1 EXCEPT !.job.status = "cancelled",
                              !.job.completedAt = t]
             s3 == addLog(s2, "warn", Msg("Analysis cancelled by user"))
         IN  emitEvent(s3, "status", "cancelled")

isJobCancelled(s) ==
  s.job.status = "cancelled" \/ s.job.abortController = "aborted"

setResult(s, result) ==
  LET s1 == [s EXCEPT !.job.result = result]
  IN  emitEvent(s1, "result", result)

setError(s, error, t) ==
  LET s1 == [s EXCEPT !.job.error = error,
                      !.job.status = "failed",
                      !.job.completedAt = t]
  IN  emitEvent(s1, "error", error)

(***************************************************************************)
(* StoreSpec: the job-store operations alone, called in any order on one   *)
(* job by an arbitrary client.                                             *)
(***************************************************************************)
Results == {[summary |-> "r1"], [summary |-> "r2"]}

Errors == {"e1", "e2"}

ProgressValues == {0, 50}

Messages == {"client message 1", "client message 2"}

NoRun == [stage |-> "none"]

Last(op, ret) == [op |-> op, ret |-> ret]

(***************************************************************************)
(* GET /api/analyze/[id]/stream: one consumer of the event stream.         *)
(* stream.sent is what sendEvent has enqueued; stream.state is "none"      *)
(* before the request, "open" while the callback is in job.subscribers,    *)
(* "ended" after unsubscribe; stream.at is the number of events the job    *)
(* had emitted when the stream was opened; stream.timer is the pending     *)
(* setTimeout that closes the stream.                                      *)
(***************************************************************************)
NoStream == [state |-> "none", sent |-> << >>, at |-> 0, timer |-> FALSE]

Event(type, data) == [type |-> type, data |-> data]

\* a catch-up that leaves out the buffered logs
CatchUpWithoutLogs(j) ==
  <<Event("status", j.status), Event("progress", j.progress)>>

\* start(controller) up to "Send current progress"
CatchUp(j) ==
  <<Event("status", j.status)>>
    \o [k \in 1..Len(j.logs) |-> Event("log", j.logs[k])]
    \o <<Event("progress", j.progress)>>

\* start(controller): the catch-up, then the result or the error and close,
\* or subscribeToJob
StreamStart(j, emitted) ==
  IF j.status = "completed" /\ j.result # NoResult
    THEN [state |-> "ended", sent |-> Append(CatchUp(j), Event("result", j.result)),
          at |-> emitted, timer |-> FALSE]
    ELSE IF j.status = "failed" /\ j.error # NoError
           THEN [state |-> "ended", sent |-> Append(CatchUp(j), Event("error", j.error)),
                 at |-> emitted, timer |-> FALSE]
           ELSE [state |-> "open", sent |-> CatchUp(j), at |-> emitted, timer |-> FALSE]

\* the callback given to subscribeToJob, called by emitEvent with one event
StreamCallback(st, event) ==
  IF st.state # "open"
    THEN st
    ELSE [st EXCEPT !.sent = Append(@, event),
                    !.timer = @ \/ (event.type = "status" /\ event.data \in {"completed", "failed"})]

\* emitEvent for the events a store operation emits, in order
RECURSIVE Deliver(_, _)
Deliver(st, emitted) ==
  IF emitted = << >>
    THEN st
    ELSE Deliver(StreamCallback(st, Head(emitted)), Tail(emitted))

StoreInit ==
  /\ job = createJob
  /\ events = << >>
  /\ now = 1
  /\ last = Last("createJob", TRUE)
  /\ pc = "store"
  /\ run = NoRun
  /\ stream = NoStream

\* one call of a store operation: s1 is the store it leaves
StoreCall(op, ret, s1) ==
  /\ pc = "store"
  /\ now <= MaxOps
  /\ job' = s1.job
  /\ events' = s1.events
  /\ now' = now + 1
  /\ last' = Last(op, ret)
  /\ stream' = Deliver(stream, SubSeq(s1.events, Len(events) + 1, Len(s1.events)))
  /\ UNCHANGED <<pc, run>>

StoreAddLog ==
  \E message \in Messages :
    StoreCall("addLog", TRUE, addLog(Store(job, events), "info", Msg(message)))

StoreUpdateProgress ==
  \E current \in ProgressValues :
    StoreCall("updateProgress", TRUE,
              updateProgress(Store(job, events), current, "client stage"))

StoreUpdateStatus ==
  \E status \in JobStatus :
    StoreCall("updateStatus", TRUE, updateStatus(Store(job, events), status, now))

StoreSetAbortController ==
  StoreCall("setAbortController", TRUE, setAbortController(Store(job, events)))

StoreCancelJob ==
  StoreCall("cancelJob", cancelJobReturn(Store(job, events)),
            cancelJob(Store(job, events), now))

StoreSetResult ==
  \E result \in Results :
    StoreCall("setResult", TRUE, setResult(Store(job, events), result))

StoreSetError ==
  \E error \in Errors :
    StoreCall("setError", TRUE, setError(Store(job, events), error, now))

StoreNext ==
  \/ StoreAddLog
  \/ StoreUpdateProgress
  \/ StoreUpdateStatus
  \/ StoreSetAbortController
  \/ StoreCancelJob
  \/ StoreSetResult
  \/ StoreSetError

StoreSpec == StoreInit /\ [][StoreNext]_vars

(***************************************************************************)
(* StreamSpec: the job-store operations in any order, and one consumer     *)
(* that opens the event stream at any point.                               *)
(***************************************************************************)
\* GET: getJob, new ReadableStream({start}) -- one synchronous block
StreamOpen ==
  /\ pc = "store"
  /\ stream.state = "none"
  /\ stream' = StreamStart(job, Len(events))
  /\ last' = Last("stream", TRUE)
  /\ UNCHANGED <<job, events, now, pc, run>>

\* the setTimeout callback: unsubscribe(); controller.close()
StreamTimeout ==
  /\ pc = "store"
  /\ stream.timer
  /\ stream' = [stream EXCEPT !.state = "ended", !.timer = FALSE]
  /\ last' = Last("timeout", TRUE)
  /\ UNCHANGED <<job, events, now, pc, run>>

\* request.signal "abort": the client has gone
StreamDisconnect ==
  /\ pc = "store"
  /\ stream.state = "open"
  /\ stream' = [stream EXCEPT !.state = "ended"]
  /\ last' = Last("disconnect", TRUE)
  /\ UNCHANGED <<job, events, now, pc, run>>

StreamNext ==
  \/ now <= MaxStreamOps /\ StoreNext
  \/ StreamOpen
  \/ StreamTimeout
  \/ StreamDisconnect

StreamSpec == StoreInit /\ [][StreamNext]_vars

\* the timer armed by the callback fires: setTimeout(..., 100) runs once the
\* event loop is idle; nothing makes the client disconnect
StreamLiveSpec == StreamSpec /\ WF_vars(StreamTimeout)

(***************************************************************************)
(* CleanupSpec: the store operations and the stream of one job, and        *)
(* cleanupOldJobs called at any point.  pc is "store" while the job is in  *)
(* the registry (jobs.get(id) returns it) and "deleted" once it is removed.*)
(***************************************************************************)
\* the maxAgeMs cleanupOldJobs is called with, in ticks of the clock
MaxAges == {1, 2}

\* for (const [id, job] of jobs) if (now - job.createdAt > maxAgeMs &&
\* job.subscribers.size === 0) jobs.delete(id)
cleanupOldJobs(j, st, maxAgeMs, t) ==
  IF t - j.createdAt > maxAgeMs /\ st.state # "open"
    THEN "deleted"
    ELSE "store"

CleanupOldJobs ==
  /\ pc = "store"
  /\ \E maxAgeMs \in MaxAges :
       /\ pc' = cleanupOldJobs(job, stream, maxAgeMs, now)
       /\ last' = Last("cleanupOldJobs", maxAgeMs)
  /\ UNCHANGED <<job, events, now, run, stream>>

\* addLog, updateProgress, updateStatus, setResult on a job that is no longer
\* in the registry: const job = jobs.get(id); if (!job) return
StoreCallDropped ==
  /\ pc = "deleted"
  /\ now <= MaxStreamOps
  /\ \E op \in {"addLog", "updateProgress", "updateStatus", "setResult"} :
       last' = Last(op, FALSE)
  /\ now' = now + 1
  /\ UNCHANGED <<job, events, pc, run, stream>>

CleanupNext ==
  \/ StreamNext
  \/ CleanupOldJobs
  \/ StoreCallDropped

CleanupSpec == StoreInit /\ [][CleanupNext]_vars

(***************************************************************************)
(* The analysis runner (runAnalysis) and the three agents it drives.       *)
(*                                                                         *)
(* A context c = [s, r, pc] is the store, the local variables of the       *)
(* runner and of the agents, and the await the code stops at.  Each        *)
(* operator below is a piece of straight-line code; it ends by naming the  *)
(* operator that continues, so a whole synchronous block is one value.     *)
(***************************************************************************)

\* the agent's maxDepth option (SentinelAgent constructor), checked at a small value
maxDepth == 2

\* most endpoints the model is let to report in one run
MaxEndpoints == 2

\* most failures the environment causes in one run while the job is not aborted:
\* unparseable replies, error replies, rejected requests, failed file writes
MaxFaults == 3

\* most cancel requests in one run
MaxCancels == 1

GUARDIAN_MAX_RETRIES == 3

INSPECTOR_MAX_RETRIES == 3

PROGRESS ==
  [ INIT      |-> [start |-> 0,  end |-> 5],
    SENTINEL  |-> [start |-> 5,  end |-> 35],
    GUARDIAN  |-> [start |-> 35, end |-> 65],
    INSPECTOR |-> [start |-> 65, end |-> 95],
    FINALIZE  |-> [start |-> 95, end |-> 100] ]

Min(a, b) == IF a < b THEN a ELSE b

\* Math.round(stage.start + (current / total) * stageRange)
calcProgress(stage, current, total) ==
  IF total = 0
    THEN stage.end
    ELSE LET stageRange == stage.end - stage.start
         IN  (2 * (stage.start * total + current * stageRange) + total) \div (2 * total)

\* text of the model's reply that is copied into a log message (the `message`
\* of an error reply, a name or a path): "marker" is a text that holds the words
\* the stage's onLog handler looks for
Payloads == {"plain", "marker"}

RunInit ==
  [ endpointProfiles |-> << >>,
    securityChecklists |-> << >>,
    securityReports |-> << >>,
    endpoints |-> << >>,
    depth |-> 0,
    endpointsFound |-> 0,
    faults |-> 0,
    flow |-> 0,
    retries |-> 0,
    checklists |-> << >>,
    completedFlows |-> 0,
    inspectionInputs |-> << >>,
    reports |-> << >>,
    completedInspections |-> 0,
    requests |-> 0,
    analysisHistory |-> << >>,
    conversationHistory |-> << >>,
    traceCalls |-> 0,
    tracingHistory |-> << >>,
    cancels |-> 0 ]

Ctx(s, r, p) == [s |-> s, r |-> r, pc |-> p]

\* error.message of what a catch block receives: the Error("Analysis cancelled")
\* the agents' checkCancellation throws, the AbortError of a request whose signal
\* was aborted, a transport error, a parse error
AnalysisCancelled == "Analysis cancelled"

\* the message with which an awaited generateText rejects
Rejection(c) ==
  IF c.s.job.abortController = "aborted" THEN "AbortError" ELSE "transport error"

\* an agent that does not look at its abort signal
agentAbortedUnchecked(c) ==
  FALSE

\* checkCancellation of the agents: this.abortSignal?.aborted
agentAborted(c) ==
  c.s.job.abortController = "aborted"

\* a runner that does not check for cancellation between its stages
checkCancellationSkipped(c) ==
  FALSE

\* checkCancellation of the runner: signal?.aborted || isJobCancelled(jobId)
checkCancellation(c) ==
  c.s.job.abortController = "aborted" \/ isJobCancelled(c.s)

\* an outer catch that handles a CancellationError like any other error
CancellationAsFailure(c) ==
  [c EXCEPT !.s = setError(addLog(c.s, "error", MsgWith("Analysis failed:", AnalysisCancelled)),
                           AnalysisCancelled, now),
            !.pc = "done"]

\* the outer catch of runAnalysis on a CancellationError: return
CancellationReturn(c) ==
  [c EXCEPT !.pc = "done"]

\* an agent that returns the reply's result as the model wrote it
KeepReplyFlowName(result, flow_name) ==
  result

\* { ...response.result, flow_name: flow.flow_name }
OverrideFlowName(result, flow_name) ==
  [result EXCEPT !.flow_name = flow_name]

\* the result of a completed reply: the model chose its flow_name
ReplyResult(flow_name) == [flow_name |-> flow_name]

\* one message of a conversation; the content is kept by its kind
Message(role, content) == [role |-> role, content |-> content]

\* conversationHistory after the initial prompt is pushed
InitialHistory == << Message("user", "initial prompt") >>

\* conversationHistory.push({ role: "assistant", content: text })
Received(c) ==
  [c EXCEPT !.r.conversationHistory = Append(@, Message("assistant", "reply"))]

\* conversationHistory.push({ role: "user", content })
Asked(c, content) ==
  [c EXCEPT !.r.conversationHistory = Append(@, Message("user", content))]

\* the conversation of a unit ends with analyzeFlow or inspectFlow
UnitOver(c) ==
  [c EXCEPT !.r.conversationHistory = << >>]

\* this.analysisHistory.push({flow_name, conversationHistory, retries, success})
Archive(c, flow_name, success) ==
  [c EXCEPT !.r.analysisHistory =
     Append(@, [flow_name |-> flow_name, retries |-> c.r.retries, success |-> success])]

\* two requests issued at once
IssueRequestTwice(c, p) ==
  [c EXCEPT !.r.requests = @ + 2, !.pc = p]

\* generateText({... abortSignal}) is called and awaited
IssueRequest(c, p) ==
  [c EXCEPT !.r.requests = @ + 1, !.pc = p]

(***************************************************************************)
(* Finalize (runAnalysis)                                                  *)
(***************************************************************************)
AnalysisResult(r) ==
  [ endpointsFound |-> Len(r.endpointProfiles),
    securityChecklistsGenerated |-> Len(r.securityChecklists),
    securityReportsGenerated |-> Len(r.securityReports) ]

\* a finalize that announces the completion before it sets the result
FinalizeStatusFirst(c) ==
  IF checkCancellation(c)
    THEN CancellationReturn(c)
    ELSE LET s1 == updateProgress(c.s, 100, "Complete")
             s2 == updateStatus(s1, "completed", now)
             s3 == setResult(s2, AnalysisResult(c.r))
             s4 == addLog(s3, "success", Msg("Analysis completed in"))
         IN  [c EXCEPT !.s = s4, !.pc = "done"]

Finalize(c) ==
  IF checkCancellation(c)
    THEN CancellationReturn(c)
    ELSE LET s1 == updateProgress(c.s, 100, "Complete")
             s2 == setResult(s1, AnalysisResult(c.r))
             s3 == addLog(s2, "success", Msg("Analysis completed in"))
             s4 == updateStatus(s3, "completed", now)
         IN  [c EXCEPT !.s = s4, !.pc = "done"]

(***************************************************************************)
(* Stage 3: Inspector Agent                                                *)
(***************************************************************************)
InspectorIncludesInspecting(m) ==
  m.tpl = "[i/N] Inspecting:"

InspectorIncludesImplemented(m) ==
  \/ m.tpl = "implemented, missing, auto-handled"
  \/ m.payload = "marker"

\* the onLog callback the runner gives the Inspector agent
InspectorOnLog(c, m) ==
  LET total == Len(c.r.inspectionInputs)
      s1 == addLog(c.s, "info", m)
      n1 == IF InspectorIncludesInspecting(m) THEN m.i - 1 ELSE c.r.completedInspections
      s2 == IF InspectorIncludesInspecting(m)
              THEN updateProgress(s1, calcProgress(PROGRESS.INSPECTOR, n1, total),
                                  "Inspector Agent: Inspecting")
              ELSE s1
      n2 == IF InspectorIncludesImplemented(m) THEN n1 + 1 ELSE n1
      s3 == IF InspectorIncludesImplemented(m)
              THEN updateProgress(s2, calcProgress(PROGRESS.INSPECTOR, n2, total),
                                  "Inspector Agent: inspected")
              ELSE s2
  IN  [c EXCEPT !.s = s3, !.r.completedInspections = n2]

\* runAnalysis after inspectFlows has returned
InspectorReturn(c) ==
  LET r1 == [c.r EXCEPT !.securityReports = c.r.reports]
      s1 == updateProgress(c.s, PROGRESS.INSPECTOR.end, "Inspector Agent: Complete")
      s2 == addLog(s1, "success", Msg("Inspector Agent: implemented, missing controls"))
  IN  Finalize([c EXCEPT !.s = s2, !.r = r1])

\* runAnalysis catching what inspectFlows threw (never a CancellationError)
InspectorCatch(c, errorMsg) ==
  Finalize([c EXCEPT !.s = addLog(c.s, "warn", MsgWith("Inspector Agent error:", errorMsg))])

\* inspectFlows after its loop: the debug file is written and awaited
InspectorLoopEnd(c) ==
  LET c1 == InspectorOnLog(c, Msg("Inspector Agent complete. Generated reports."))
  IN  [c1 EXCEPT !.pc = "inspectorSave"]

RECURSIVE InspectorLoopHead(_)

\* inspectFlows: what follows inspectFlow for the current input
InspectorNextFlow(c) ==
  InspectorLoopHead(UnitOver([c EXCEPT !.r.flow = @ + 1]))

\* inspectFlows catching what inspectFlow threw
InspectorFlowCatch(c, errorMsg) ==
  InspectorNextFlow(InspectorOnLog(c, MsgWith("Failed to inspect flow:", errorMsg)))

\* inspectFlow: the head of while (retries < this.maxRetries)
InspectorWhile(c) ==
  IF c.r.retries < INSPECTOR_MAX_RETRIES
    THEN IF agentAborted(c)
           THEN InspectorFlowCatch(c, AnalysisCancelled)
           ELSE IssueRequest(c, "inspectorCall")
    ELSE InspectorNextFlow(
           Archive(c, c.r.endpointProfiles[c.r.inspectionInputs[c.r.flow].endpoint], FALSE))

\* inspectFlows: the head of for (i < inputs.length)
InspectorLoopHead(c) ==
  IF c.r.flow > Len(c.r.inspectionInputs)
    THEN InspectorLoopEnd(c)
    ELSE IF agentAborted(c)
           THEN InspectorCatch(c, AnalysisCancelled)
           ELSE LET c1 == InspectorOnLog(c, MsgIdx("[i/N] Inspecting:", c.r.flow))
                    c2 == InspectorOnLog(c1, Msg("Controls to check:"))
                IN  InspectorWhile([c2 EXCEPT !.r.retries = 0,
                                                !.r.conversationHistory = InitialHistory])

\* securityChecklists.find((c) => c.flow_name === flow_name): the index of the
\* first checklist of that flow_name, 0 when there is none
findChecklist(securityChecklists, flow_name) ==
  LET S == {k \in 1..Len(securityChecklists) :
              securityChecklists[k].flow_name = flow_name}
  IN  IF S = {} THEN 0 ELSE CHOOSE k \in S : \A m \in S : k <= m

\* the inputs the runner builds: every endpoint (the index of its profile)
\* with the first checklist of its flow_name
InspectionInputs(endpointProfiles, securityChecklists) ==
  LET has(i) == findChecklist(securityChecklists, endpointProfiles[i]) # 0
      found == SelectSeq([i \in 1..Len(endpointProfiles) |-> i], has)
  IN  [n \in 1..Len(found) |->
         [endpoint |-> found[n],
          checklist |-> securityChecklists[
                          findChecklist(securityChecklists, endpointProfiles[found[n]])]]]

\* runAnalysis from "Stage 3" to the first await of the stage
InspectorStage(c) ==
  IF checkCancellation(c)
    THEN CancellationReturn(c)
    ELSE IF Len(c.r.endpointProfiles) > 0 /\ Len(c.r.securityChecklists) > 0
           THEN LET s1 == updateProgress(c.s, PROGRESS.INSPECTOR.start,
                                         "Inspector Agent: Inspecting code")
                    s2 == addLog(s1, "info", Msg("Inspector Agent: Performing security inspection"))
                    inputs == InspectionInputs(c.r.endpointProfiles, c.r.securityChecklists)
                    c1 == [c EXCEPT !.s = s2,
                                    !.r.inspectionInputs = inputs,
                                    !.r.completedInspections = 0,
                                    !.r.reports = << >>,
                                    !.r.flow = 1]
                IN  IF Len(inputs) > 0
                      THEN LET c2 == InspectorOnLog(c1, Msg("Inspector Agent starting security inspection"))
                               c3 == InspectorOnLog(c2, Msg("Flows to inspect:"))
                           IN  IF agentAborted(c3)
                                 THEN InspectorCatch(c3, AnalysisCancelled)
                                 ELSE InspectorLoopHead(c3)
                      ELSE Finalize(c1)
           ELSE LET s1 == updateProgress(c.s, PROGRESS.INSPECTOR.end,
                                         "Inspector Agent: Skipped")
                    s2 == addLog(s1, "info", Msg("Inspector Agent: Skipped (no checklists available)"))
                IN  Finalize([c EXCEPT !.s = s2])

\* inspectFlow after the awaited generateText: the reply is a completed report
InspectorCompleted(c, result) ==
  LET endpoint == c.r.endpointProfiles[c.r.inspectionInputs[c.r.flow].endpoint]
      c0 == Archive(c, endpoint, TRUE)
      c1 == [c0 EXCEPT !.r.reports = Append(@, OverrideFlowName(result, endpoint))]
      c2 == InspectorOnLog(c1, Msg("implemented, missing, auto-handled"))
      c3 == InspectorOnLog(c2, Msg("Overall severity:"))
  IN  InspectorNextFlow(c3)

\* the reply has status "error"
InspectorErrorReply(c, payload) ==
  LET c1 == InspectorOnLog(c, MsgWith("Agent error:", payload))
  IN  InspectorWhile(Asked([c1 EXCEPT !.r.retries = @ + 1], "Please try again"))

\* generateText rejected or parseInspectorResponse threw
InspectorAttemptCatch(c, errorMsg) ==
  LET c1 == InspectorOnLog([c EXCEPT !.r.retries = @ + 1],
                           MsgWith("Parse error (attempt k/N):", errorMsg))
      h == c1.r.conversationHistory
  IN  InspectorWhile(IF Len(h) > 1 /\ h[Len(h)].role = "assistant"
                       THEN [c1 EXCEPT !.r.conversationHistory = SubSeq(h, 1, Len(h) - 1)]
                       ELSE c1)

\* inspectFlows after the awaited write of the debug file
InspectorSaved(c, ok) ==
  InspectorReturn(InspectorOnLog(c,
     IF ok THEN Msg("Debug output saved to:") ELSE Msg("Failed to save debug output:")))

(***************************************************************************)
(* Stage 2: Guardian Agent                                                 *)
(***************************************************************************)
GuardianIncludesAnalyzing(m) ==
  m.tpl = "[i/N] Analyzing:"

\* message.includes("✅ Generated"): the agent's own "Generated N required"
\* line is written with other bytes in the agent's source and does not match
GuardianIncludesGenerated(m) ==
  m.payload = "marker"

\* the onLog callback the runner gives the Guardian agent
GuardianOnLog(c, m) ==
  LET total == Len(c.r.endpointProfiles)
      s1 == addLog(c.s, "info", m)
      n1 == IF GuardianIncludesAnalyzing(m) THEN m.i - 1 ELSE c.r.completedFlows
      s2 == IF GuardianIncludesAnalyzing(m)
              THEN updateProgress(s1, calcProgress(PROGRESS.GUARDIAN, n1, total),
                                  "Guardian Agent: Analyzing")
              ELSE s1
      n2 == IF GuardianIncludesGenerated(m) THEN n1 + 1 ELSE n1
      s3 == IF GuardianIncludesGenerated(m)
              THEN updateProgress(s2, calcProgress(PROGRESS.GUARDIAN, n2, total),
                                  "Guardian Agent: checklists")
              ELSE s2
  IN  [c EXCEPT !.s = s3, !.r.completedFlows = n2]

\* runAnalysis after analyzeFlows has returned
GuardianReturn(c) ==
  LET r1 == [c.r EXCEPT !.securityChecklists = c.r.checklists]
      s1 == updateProgress(c.s, PROGRESS.GUARDIAN.end, "Guardian Agent: Complete")
      s2 == addLog(s1, "success", Msg("Guardian Agent: checklists"))
  IN  InspectorStage([c EXCEPT !.s = s2, !.r = r1])

\* runAnalysis catching what analyzeFlows threw (never a CancellationError)
GuardianCatch(c, errorMsg) ==
  InspectorStage([c EXCEPT !.s = addLog(c.s, "warn", MsgWith("Guardian Agent error:", errorMsg))])

\* analyzeFlows after its loop: the debug file is written and awaited
GuardianLoopEnd(c) ==
  LET c1 == GuardianOnLog(c, Msg("Guardian Agent complete. Generated checklists."))
  IN  [c1 EXCEPT !.pc = "guardianSave"]

RECURSIVE GuardianLoopHead(_)

\* analyzeFlows: what follows analyzeFlow for the current flow
GuardianNextFlow(c) ==
  GuardianLoopHead(UnitOver([c EXCEPT !.r.flow = @ + 1]))

\* analyzeFlows catching what analyzeFlow threw
GuardianFlowCatch(c, errorMsg) ==
  GuardianNextFlow(GuardianOnLog(c, MsgWith("Failed to analyze flow:", errorMsg)))

\* a stage that ends with the first unit that exhausts its retries
GuardianWhileGivingUp(c) ==
  IF c.r.retries < GUARDIAN_MAX_RETRIES
    THEN IF agentAborted(c)
           THEN GuardianFlowCatch(c, AnalysisCancelled)
           ELSE IssueRequest(c, "guardianCall")
    ELSE GuardianLoopEnd(Archive(c, c.r.endpointProfiles[c.r.flow], FALSE))

\* analyzeFlow: the head of while (retries < this.maxRetries)
GuardianWhile(c) ==
  IF c.r.retries < GUARDIAN_MAX_RETRIES
    THEN IF agentAborted(c)
           THEN GuardianFlowCatch(c, AnalysisCancelled)
           ELSE IssueRequest(c, "guardianCall")
    ELSE GuardianNextFlow(Archive(c, c.r.endpointProfiles[c.r.flow], FALSE))

\* analyzeFlows: the head of for (i < flows.length)
GuardianLoopHead(c) ==
  IF c.r.flow > Len(c.r.endpointProfiles)
    THEN GuardianLoopEnd(c)
    ELSE IF agentAborted(c)
           THEN GuardianCatch(c, AnalysisCancelled)
           ELSE LET c1 == GuardianOnLog(c, MsgIdx("[i/N] Analyzing:", c.r.flow))
                    c2 == GuardianOnLog(c1, Msg("Entry: | Sensitivity:"))
                IN  GuardianWhile([c2 EXCEPT !.r.retries = 0,
                                               !.r.conversationHistory = InitialHistory])

\* a runner that passes over the stage without a word
GuardianSkippedSilently(c) ==
  InspectorStage(c)

\* runAnalysis, no endpoints: the stage is skipped, its progress set to its end
GuardianSkipped(c) ==
  LET s1 == updateProgress(c.s, PROGRESS.GUARDIAN.end,
                           "Guardian Agent: Skipped (no endpoints)")
      s2 == addLog(s1, "info", Msg("Guardian Agent: Skipped (no endpoints discovered)"))
  IN  InspectorStage([c EXCEPT !.s = s2])

\* runAnalysis from "Stage 2" to the first await of the stage
GuardianStage(c) ==
  IF checkCancellation(c)
    THEN CancellationReturn(c)
    ELSE IF Len(c.r.endpointProfiles) > 0
           THEN LET s1 == updateProgress(c.s, PROGRESS.GUARDIAN.start,
                                         "Guardian Agent: Generating security checklists")
                    s2 == addLog(s1, "info", Msg("Guardian Agent: Creating security checklists"))
                    c1 == [c EXCEPT !.s = s2,
                                    !.r.completedFlows = 0,
                                    !.r.checklists = << >>,
                                    !.r.flow = 1]
                    c2 == GuardianOnLog(c1, Msg("Guardian Agent starting security analysis"))
                    c3 == GuardianOnLog(c2, Msg("Flows to analyze:"))
                IN  IF agentAborted(c3)
                      THEN GuardianCatch(c3, AnalysisCancelled)
                      ELSE GuardianLoopHead(c3)
           ELSE GuardianSkipped(c)

\* the checklist of a reply: the reply answers the request that was built
\* from the flow profile of index profile, and its controls are about it
ChecklistOf(result, profile) ==
  [flow_name |-> result.flow_name, profile |-> profile]

\* analyzeFlow after the awaited generateText: the reply is a completed checklist
GuardianCompleted(c, result) ==
  LET flow == c.r.endpointProfiles[c.r.flow]
      c0 == Archive(c, flow, TRUE)
      c1 == [c0 EXCEPT !.r.checklists =
                          Append(@, ChecklistOf(OverrideFlowName(result, flow), c.r.flow))]
      c2 == GuardianOnLog(c1, Msg("Generated required, recommended controls"))
  IN  GuardianNextFlow(c2)

\* the reply has status "error"
GuardianErrorReply(c, payload) ==
  LET c1 == GuardianOnLog(c, MsgWith("Agent reported error:", payload))
  IN  GuardianWhile(Asked([c1 EXCEPT !.r.retries = @ + 1], "Please try again"))

\* a catch block that does not count the failed attempt
GuardianAttemptCatchUncounted(c, errorMsg) ==
  GuardianWhile(Asked(GuardianOnLog(c, MsgWith("Retry k/N:", errorMsg)),
                      "Your response could not be parsed"))

\* a catch block that asks for nothing
GuardianAttemptCatchSilent(c, errorMsg) ==
  LET c1 == [c EXCEPT !.r.retries = @ + 1]
  IN  GuardianWhile(GuardianOnLog(c1, MsgWith("Retry k/N:", errorMsg)))

\* generateText rejected or parseGuardianResponse threw
GuardianAttemptCatch(c, errorMsg) ==
  LET c1 == [c EXCEPT !.r.retries = @ + 1]
      c2 == GuardianOnLog(c1, MsgWith("Retry k/N:", errorMsg))
  IN  GuardianWhile(Asked(c2, "Your response could not be parsed"))

\* analyzeFlows after the awaited write of the debug file
GuardianSaved(c, ok) ==
  GuardianReturn(GuardianOnLog(c,
     IF ok THEN Msg("Debug output saved to:") ELSE Msg("Failed to save debug output:")))

(***************************************************************************)
(* Stage 1: Sentinel Agent                                                 *)
(***************************************************************************)
\* message.includes("endpoint") || message.includes("flow")
SentinelIncludesEndpoint(m) ==
  \/ m.tpl \in { "All endpoints analyzed. Sentinel Agent complete.",
                 "No more endpoints found",
                 "Picking endpoint from:",
                 "Max depth reached while tracing endpoint" }
  \/ m.payload = "marker"

\* the onLog callback the runner gives the Sentinel agent
SentinelOnLog(c, m) ==
  LET s1 == addLog(c.s, "info", m)
      n == c.r.endpointsFound + 1
  IN  IF SentinelIncludesEndpoint(m)
        THEN [c EXCEPT !.s = updateProgress(s1,
                                calcProgress(PROGRESS.SENTINEL, Min(n, 10), 10),
                                "Sentinel Agent: Found endpoint(s)"),
                       !.r.endpointsFound = n]
        ELSE [c EXCEPT !.s = s1]

\* the try block of the discovery stage is left: the counter of its onLog
\* callback and the agent's depth are gone
SentinelStageOver(r) ==
  [r EXCEPT !.endpointsFound = 0, !.depth = 0]

\* runAnalysis after analyze has returned
SentinelReturn(c) ==
  LET r1 == [SentinelStageOver(c.r) EXCEPT !.endpointProfiles = c.r.endpoints]
      s1 == updateProgress(c.s, PROGRESS.SENTINEL.end, "Sentinel Agent: Complete")
      s2 == addLog(s1, "success", Msg("Sentinel Agent: Discovered endpoints"))
  IN  GuardianStage([c EXCEPT !.s = s2, !.r = r1])

\* a runner that fails the job when the discovery agent throws
SentinelCatchFailingJob(c, errorMsg) ==
  [c EXCEPT !.s = setError(addLog(c.s, "error", MsgWith("Analysis failed:", errorMsg)),
                           errorMsg, now),
            !.pc = "done"]

\* runAnalysis catching what analyze threw (never a CancellationError)
SentinelCatch(c, errorMsg) ==
  GuardianStage([c EXCEPT !.s = addLog(c.s, "warn", MsgWith("Sentinel Agent error:", errorMsg)),
                          !.r = SentinelStageOver(c.r)])

\* this.tracingHistory.push({endpoint, conversationHistory, filesRead})
SentinelArchive(c) ==
  [c EXCEPT !.r.tracingHistory =
               Append(@, [conversationHistory |-> c.r.conversationHistory])]

\* findAndTraceEndpoint has returned or thrown: its locals are gone
SentinelTraceOver(c) ==
  [c EXCEPT !.r.conversationHistory = << >>, !.r.traceCalls = 0]

\* analyze after findAndTraceEndpoint returned null: the loop is left and the
\* debug file is written and awaited
SentinelLoopEnd(c) ==
  LET c1 == SentinelOnLog(SentinelTraceOver(c),
                          Msg("All endpoints analyzed. Sentinel Agent complete."))
  IN  [c1 EXCEPT !.pc = "sentinelSave"]

\* findAndTraceEndpoint: the head of while (depth < this.maxDepth); traceCalls
\* counts the generateText calls of this invocation
SentinelWhile(c) ==
  IF c.r.depth < maxDepth
    THEN IF agentAborted(c)
           THEN SentinelCatch(SentinelTraceOver(c), AnalysisCancelled)
           ELSE IssueRequest([c EXCEPT !.r.depth = @ + 1, !.r.traceCalls = @ + 1],
                             "sentinelCall")
    ELSE SentinelLoopEnd(SentinelArchive(
           SentinelOnLog(c, Msg("Max depth reached while tracing endpoint"))))

\* analyze: the head of while (true), and the start of findAndTraceEndpoint
SentinelLoopHead(c) ==
  IF agentAborted(c)
    THEN SentinelCatch(SentinelTraceOver(c), AnalysisCancelled)
    ELSE SentinelWhile([c EXCEPT !.r.depth = 0,
                                 !.r.conversationHistory = InitialHistory,
                                 !.r.traceCalls = 0])

\* runAnalysis from its first statement to the first await
RunStart(c) ==
  LET s0 == setAbortController(c.s)
      s1 == updateStatus(s0, "running", now)
      s2 == updateProgress(s1, PROGRESS.INIT.start, "Initializing")
      s3 == addLog(s2, "info", Msg("Starting analysis for project"))
      c3 == [c EXCEPT !.s = s3]
  IN  IF checkCancellation(c3)
        THEN CancellationReturn(c3)
        ELSE LET s4 == updateProgress(s3, PROGRESS.SENTINEL.start,
                                      "Sentinel Agent: Discovering endpoints")
                 s5 == addLog(s4, "info", Msg("Sentinel Agent: Analyzing codebase for endpoints"))
                 c5 == [c EXCEPT !.s = s5, !.r.endpointsFound = 0, !.r.endpoints = << >>]
                 c6 == SentinelOnLog(c5, Msg("Sentinel Agent starting analysis"))
             IN  IF agentAborted(c6)
                   THEN SentinelCatch(c6, AnalysisCancelled)
                   ELSE SentinelLoopHead(SentinelOnLog(c6, Msg("Project structure generated")))

\* conversationHistory.push({ role: "assistant", content: text })
SentinelReceived(c) ==
  [c EXCEPT !.r.conversationHistory = Append(@, Message("assistant", "reply"))]

\* readFileAndRespond: one user message, the file or "File not found"
readFileAndRespond(c, found) ==
  [c EXCEPT !.r.conversationHistory =
      Append(@, Message("user", IF found THEN "file" ELSE "file not found"))]

\* findAndTraceEndpoint after the awaited generateText, by the parsed reply
SentinelNotFound(c) ==
  SentinelLoopEnd(SentinelArchive(
    SentinelOnLog(SentinelReceived(c), Msg("No more endpoints found"))))

\* pick_endpoint: readFileAndRespond finds the file or not
SentinelPick(c, found) ==
  LET c1 == SentinelOnLog(SentinelReceived(c), Msg("Picking endpoint from:"))
      c2 == readFileAndRespond(c1, found)
  IN  IF found THEN SentinelWhile(c2) ELSE SentinelLoopEnd(SentinelArchive(c2))

\* tracing_endpoint: the file is read; if it is missing and a file is queued
\* the queued file is read; near the depth limit the agent is told so
SentinelTracing(c, found, queued) ==
  LET c1 == SentinelOnLog(SentinelReceived(c), Msg("Tracing endpoint_being_traced:"))
      c2 == readFileAndRespond(c1, found)
      c3 == IF ~found /\ queued THEN readFileAndRespond(c2, TRUE) ELSE c2
      c4 == IF c.r.depth + 1 >= maxDepth
              THEN [c3 EXCEPT !.r.conversationHistory =
                                 Append(@, Message("user", "maximum depth warning"))]
              ELSE c3
  IN  SentinelWhile(c4)

\* completed: analyze records the profile and starts the next trace
SentinelCompleted(c, flowName) ==
  LET c1 == SentinelArchive(
              SentinelOnLog(SentinelReceived(c), Msg("Endpoint analysis complete:")))
      c2 == [c1 EXCEPT !.r.endpoints = Append(@, flowName)]
  IN  SentinelLoopHead(SentinelOnLog(c2, Msg("Endpoint recorded:")))

\* a parse failure that leaves the unparseable reply in the conversation
SentinelParseFailureKeepingReply(c, payload) ==
  LET c1 == SentinelOnLog(SentinelReceived(c), MsgWith("Failed to parse agent response:", payload))
  IN  SentinelWhile([c1 EXCEPT !.r.depth = @ - 1])

\* parseAgentResponse threw: depth--, conversationHistory.slice(0, -1), continue
SentinelParseFailure(c, payload) ==
  LET c1 == SentinelOnLog(SentinelReceived(c), MsgWith("Failed to parse agent response:", payload))
      h == c1.r.conversationHistory
  IN  SentinelWhile([c1 EXCEPT !.r.depth = @ - 1,
                               !.r.conversationHistory = SubSeq(h, 1, Len(h) - 1)])

\* analyze after the awaited write of the debug file
SentinelSaved(c, ok) ==
  SentinelReturn(SentinelOnLog(c,
     IF ok THEN Msg("Debug output saved to:") ELSE Msg("Failed to save debug output:")))

(***************************************************************************)
(* Spec: one job run by runAnalysis, the model answering each completion   *)
(* request, and cancel requests (POST /api/analyze/[id]/cancel).           *)
(***************************************************************************)
\* What a block starts from.  The log entries and events of earlier blocks have
\* been handed to the stream and take no further part in the run: the model
\* keeps, in job.logs and in events, the entries the latest block added, in
\* run.requests the completion requests the latest block issued, and in
\* run.analysisHistory and run.tracingHistory the transcript entries the
\* latest block archived.
Cur ==
  Ctx(Store([job EXCEPT !.logs = << >>], << >>),
      [run EXCEPT !.requests = 0, !.analysisHistory = << >>, !.tracingHistory = << >>],
      pc)

Init ==
  /\ job = createJob
  /\ events = << >>
  /\ now = 1
  /\ last = Last("createJob", TRUE)
  /\ pc = "start"
  /\ run = RunInit
  /\ stream = NoStream

\* Date.now() after a block that leaves the job j: the clock is read where a
\* time is stamped, and it has advanced before the next stamp
Clock(j) ==
  IF <<j.startedAt, j.completedAt>> # <<job.startedAt, job.completedAt>>
    THEN now + 1
    ELSE now

\* one synchronous block of the runner: c1 is the context it leaves, ret what
\* the awaited call handed to it
Resume(op, ret, c1) ==
  /\ job' = c1.s.job
  /\ events' = c1.s.events
  /\ run' = c1.r
  /\ pc' = c1.pc
  /\ now' = Clock(c1.s.job)
  /\ last' = Last(op, ret)
  /\ UNCHANGED stream

Step(op, c1) ==
  Resume(op, TRUE, c1)

\* a block that follows a failure of the environment; the failures of a run
\* are counted while the job is not aborted
Fault(op, c1) ==
  IF job.abortController = "aborted"
    THEN Step(op, c1)
    ELSE /\ run.faults < MaxFaults
         /\ Step(op, [c1 EXCEPT !.r.faults = @ + 1])

Start ==
  /\ pc = "start"
  /\ Step("runAnalysis", RunStart(Cur))

SentinelReplyNotFound ==
  /\ pc = "sentinelCall"
  /\ Resume("reply", "not_found", SentinelNotFound(Cur))

SentinelReplyPick ==
  /\ pc = "sentinelCall"
  /\ \E found \in BOOLEAN : Resume("reply", "pick_endpoint", SentinelPick(Cur, found))

SentinelReplyTracing ==
  /\ pc = "sentinelCall"
  /\ \E found, queued \in BOOLEAN :
       Resume("reply", "tracing_endpoint", SentinelTracing(Cur, found, queued))

SentinelReplyCompleted ==
  /\ pc = "sentinelCall"
  /\ Len(run.endpoints) < MaxEndpoints
  /\ \E flowName \in 1..(Len(run.endpoints) + 1) :
       Resume("reply", "completed", SentinelCompleted(Cur, flowName))

\* the flow names a reply can carry
FlowNames == 1..MaxEndpoints

SentinelReplyUnparseable ==
  /\ pc = "sentinelCall"
  /\ \E payload \in Payloads : Fault("unparseable", SentinelParseFailure(Cur, payload))

\* generateText rejects: a transport error, or the abort of the request
SentinelCallThrows ==
  /\ pc = "sentinelCall"
  /\ Fault("throws", SentinelCatch(SentinelTraceOver(Cur), Rejection(Cur)))

SentinelSaveDone ==
  /\ pc = "sentinelSave"
  /\ \/ Step("saved", SentinelSaved(Cur, TRUE))
     \/ Fault("save failed", SentinelSaved(Cur, FALSE))

GuardianReplyCompleted ==
  /\ pc = "guardianCall"
  /\ \E flow_name \in FlowNames :
       Resume("completed", flow_name, GuardianCompleted(Received(Cur), ReplyResult(flow_name)))

GuardianReplyError ==
  /\ pc = "guardianCall"
  /\ \E payload \in Payloads : Fault("error reply", GuardianErrorReply(Received(Cur), payload))

GuardianReplyUnparseable ==
  /\ pc = "guardianCall"
  /\ Fault("unparseable", GuardianAttemptCatch(Received(Cur), "parse error"))

GuardianCallThrows ==
  /\ pc = "guardianCall"
  /\ Fault("throws", GuardianAttemptCatch(Cur, Rejection(Cur)))

GuardianSaveDone ==
  /\ pc = "guardianSave"
  /\ \/ Step("saved", GuardianSaved(Cur, TRUE))
     \/ Fault("save failed", GuardianSaved(Cur, FALSE))

InspectorReplyCompleted ==
  /\ pc = "inspectorCall"
  /\ \E flow_name \in FlowNames :
       Resume("completed", flow_name, InspectorCompleted(Received(Cur), ReplyResult(flow_name)))

InspectorReplyError ==
  /\ pc = "inspectorCall"
  /\ \E payload \in Payloads : Fault("error reply", InspectorErrorReply(Received(Cur), payload))

InspectorReplyUnparseable ==
  /\ pc = "inspectorCall"
  /\ Fault("unparseable", InspectorAttemptCatch(Received(Cur), "parse error"))

InspectorCallThrows ==
  /\ pc = "inspectorCall"
  /\ Fault("throws", InspectorAttemptCatch(Cur, Rejection(Cur)))

InspectorSaveDone ==
  /\ pc = "inspectorSave"
  /\ \/ Step("saved", InspectorSaved(Cur, TRUE))
     \/ Fault("save failed", InspectorSaved(Cur, FALSE))

\* POST /api/analyze/[id]/cancel
CancelRequest ==
  /\ pc # "store"
  /\ run.cancels < MaxCancels
  /\ LET s1 == cancelJob(Cur.s, now)
     IN  /\ job' = s1.job
         /\ events' = s1.events
         /\ last' = Last("cancelJob", cancelJobReturn(Cur.s))
  /\ run' = [Cur.r EXCEPT !.cancels = @ + 1]
  /\ now' = Clock(cancelJob(Cur.s, now).job)
  /\ UNCHANGED <<pc, stream>>

Next ==
  \/ Start
  \/ SentinelReplyNotFound
  \/ SentinelReplyPick
  \/ SentinelReplyTracing
  \/ SentinelReplyCompleted
  \/ SentinelReplyUnparseable
  \/ SentinelCallThrows
  \/ SentinelSaveDone
  \/ GuardianReplyCompleted
  \/ GuardianReplyError
  \/ GuardianReplyUnparseable
  \/ GuardianCallThrows
  \/ GuardianSaveDone
  \/ InspectorReplyCompleted
  \/ InspectorReplyError
  \/ InspectorReplyUnparseable
  \/ InspectorCallThrows
  \/ InspectorSaveDone
  \/ CancelRequest

Spec == Init /\ [][Next]_vars

(***************************************************************************)
(* Properties of the job store (StoreSpec)                                 *)
(***************************************************************************)

\* C2: for the job-store operations alone, once the status is completed,
\* failed or cancelled, no later operation changes the status or completedAt.
C2_TerminalIsFinal ==
  [][ job.status \in Terminal =>
        /\ job'.status = job.status
        /\ job'.completedAt = job.completedAt ]_vars

\* C8: a second setResult leaves the stored result unchanged and emits no
\* further event, and so does a second setError with the stored error.
C8_IdempotentOnce ==
  [][ /\ (last'.op = "setResult" /\ job.result # NoResult) =>
            (job'.result = job.result /\ events' = events)
      /\ (last'.op = "setError" /\ job.error # NoError) =>
            (job'.error = job.error /\ events' = events) ]_vars

\* C9: cancelJob on a job whose status is completed, failed or cancelled
\* returns false and changes nothing: the job (status, completedAt, logs, abort
\* handle) and the events are as before; a cancelJob that follows a cancelJob
\* changes nothing either.
C9_CancelTerminalNoOp ==
  [][ /\ (last'.op = "cancelJob" /\ job.status \in Terminal) =>
            (last'.ret = FALSE /\ job' = job /\ events' = events)
      /\ (last'.op = "cancelJob" /\ last.op = "cancelJob") =>
            (last'.ret = FALSE /\ job' = job /\ events' = events) ]_vars

\* a cancelJob was refused on a completed job whose abort handle is in place
C9_Witness ==
  /\ last.op = "cancelJob"
  /\ last.ret = FALSE
  /\ job.status = "completed"
  /\ job.abortController = "idle"
  /\ job.completedAt # Unset

(***************************************************************************)
(* Properties of the running system (Spec)                                 *)
(***************************************************************************)

C3_CancelledStaysCancelled ==
  job.abortController = "aborted" =>
    /\ job.status = "cancelled"
    /\ job.result = NoResult
    /\ \A k \in 1..Len(events) : events[k].type # "result"

\* the job was cancelled while a request was in flight, the request still
\* returned a reply, and the runner has unwound
C3_Witness ==
  /\ job.abortController = "aborted"
  /\ last.op = "reply"
  /\ pc = "done"
  /\ job.status = "cancelled"

\* C4: no agent issues a completion request once the abort signal is set: a
\* block that issues a request runs with the signal not aborted.
C4_NoRequestAfterAbort ==
  run.requests > 0 => job.abortController # "aborted"

\* after the abort an attempt failed and the agent, about to retry, issued no
\* request
C4_Witness ==
  /\ job.abortController = "aborted"
  /\ last.op \in {"unparseable", "error reply"}
  /\ run.retries > 0
  /\ run.requests = 0

\* the log entries of a generic failure: agent error, failed unit, retry
FailureEntries ==
  { "Sentinel Agent error:", "Guardian Agent error:", "Inspector Agent error:",
    "Failed to analyze flow:", "Failed to inspect flow:",
    "Retry k/N:", "Parse error (attempt k/N):" }

\* the error messages a cancellation produces
CancellationMessages == {AnalysisCancelled, "AbortError"}

\* C5: a cancellation is not recorded as a generic failure: no agent-error,
\* failed-unit or retry entry that reports the cancellation is appended to the
\* job's logs.
C5_CancellationNotLoggedAsFailure ==
  \A k \in 1..Len(job.logs) :
    ~ /\ job.logs[k].message.tpl \in FailureEntries
      /\ job.logs[k].message.payload \in CancellationMessages

\* C6: when the abort makes an in-flight checklist or inspection request fail,
\* the failure is not handled as a recoverable error of the unit: the retry
\* counter is not incremented and no retry entry is logged.
C6_AbortIsNotARetry ==
  [][ ( /\ pc \in {"guardianCall", "inspectorCall"}
        /\ job.abortController = "aborted"
        /\ last'.op = "throws" ) =>
      ( /\ run'.retries = run.retries
        /\ \A k \in 1..Len(job'.logs) :
             job'.logs[k].message.tpl \notin {"Retry k/N:", "Parse error (attempt k/N):"} ) ]_vars

\* the number of events of one type
RECURSIVE NumEvents(_, _)
NumEvents(type, ev) ==
  IF ev = << >>
    THEN 0
    ELSE (IF Head(ev).type = type THEN 1 ELSE 0) + NumEvents(type, Tail(ev))

\* C7 as stated: when the run is over, exactly one of result and error is set.
C7_ExactlyOneIsSet ==
  pc = "done" => ((job.result # NoResult) # (job.error # NoError))

\* C7: at most one of result and error is ever set, and each at most once; a
\* completed job has its result and no error; a job cancelled while running
\* has neither.
C7_AtMostOneIsSet ==
  [][ /\ ~ (job'.result # NoResult /\ job'.error # NoError)
      /\ NumEvents("result", events') <= (IF job.result = NoResult THEN 1 ELSE 0)
      /\ NumEvents("error", events') <= (IF job.error = NoError THEN 1 ELSE 0)
      /\ job.result # NoResult => job'.result = job.result
      /\ job.error # NoError => job'.error = job.error
      /\ job'.status = "completed" => (job'.result # NoResult /\ job'.error = NoError)
      /\ job'.abortController = "aborted" =>
           (job'.result = NoResult /\ job'.error = NoError) ]_vars

\* a run that was cancelled and has ended with neither a result nor an error
C7_Witness ==
  /\ pc = "done"
  /\ job.status = "cancelled"
  /\ job.startedAt # Unset
  /\ job.result = NoResult
  /\ job.error = NoError

\* the progress.current values of the progress events in ev
RECURSIVE ProgressValuesOf(_)
ProgressValuesOf(ev) ==
  IF ev = << >>
    THEN << >>
    ELSE IF Head(ev).type = "progress"
           THEN <<Head(ev).data.current>> \o ProgressValuesOf(Tail(ev))
           ELSE ProgressValuesOf(Tail(ev))

NonDecreasing(seq) ==
  \A k \in 1..(Len(seq) - 1) : seq[k] <= seq[k + 1]

\* C10: until a terminal status is emitted, the progress.current values of
\* the progress events are non-decreasing: each block's values continue, in
\* order, from the value the job held before the block.
C10_ProgressNonDecreasing ==
  [][ job.completedAt = Unset =>
        NonDecreasing(<<job.progress.current>> \o ProgressValuesOf(events')) ]_vars

(***************************************************************************)
(* Properties of the event stream (StreamSpec)                             *)
(***************************************************************************)

\* the log entries carried by the log events of a sequence of events
RECURSIVE LogsOf(_)
LogsOf(ev) ==
  IF ev = << >>
    THEN << >>
    ELSE IF Head(ev).type = "log"
           THEN <<Head(ev).data>> \o LogsOf(Tail(ev))
           ELSE LogsOf(Tail(ev))

IsPrefix(a, b) ==
  Len(a) <= Len(b) /\ SubSeq(b, 1, Len(a)) = a

\* C11: a consumer of an open stream has received the status, the buffered
\* logs and the progress of the moment it opened the stream (in that order),
\* and after them exactly the events the job emitted since: every entry of
\* job.logs has reached it once, nothing twice, nothing missed.
C11_CatchUpThenLive ==
  stream.state = "open" =>
    LET live == Len(events) - stream.at
        replay == Len(stream.sent) - live
    IN  /\ replay >= 2
        /\ stream.sent[1].type = "status"
        /\ stream.sent[replay].type = "progress"
        /\ \A k \in 2..(replay - 1) : stream.sent[k].type = "log"
        /\ SubSeq(stream.sent, replay + 1, Len(stream.sent))
             = SubSeq(events, stream.at + 1, Len(events))
        /\ LogsOf(stream.sent) = job.logs
        /\ live = 0 => /\ stream.sent[1].data = job.status
                       /\ stream.sent[replay].data = job.progress

\* the stream was opened on a running job between two log entries
C11_Witness ==
  /\ stream.state = "open"
  /\ job.status = "running"
  /\ Len(job.logs) = 2
  /\ Len(events) = stream.at + 1
  /\ stream.sent[2].type = "log"
  /\ stream.sent[Len(stream.sent)].type = "log"

\* C12: job.logs is append-only under every store operation, the log events
\* are emitted in the order of job.logs, and the log events a consumer has
\* received are the entries of job.logs in their order.
C12_LogsAppendOnlyInOrder ==
  [][ /\ IsPrefix(job.logs, job'.logs)
      /\ LogsOf(events') = job'.logs
      /\ IsPrefix(LogsOf(stream'.sent), job'.logs) ]_vars

\* a consumer that has gone after one log entry, and a job that logged on
C12_Witness ==
  /\ stream.state = "ended"
  /\ Len(LogsOf(stream.sent)) >= 1
  /\ Len(job.logs) > Len(LogsOf(stream.sent))
  /\ last.op = "addLog"

\* C13: the checklist a successful generation returns, and the report a
\* successful inspection returns, carry the flow_name of the input flow or
\* endpoint, whatever flow_name the reply held.
C13_FlowNameOfInput ==
  [][ /\ (pc = "guardianCall" /\ last'.op = "completed") =>
            /\ Len(run'.checklists) = Len(run.checklists) + 1
            /\ run'.checklists[Len(run'.checklists)].flow_name
                 = run.endpointProfiles[run.flow]
      /\ (pc = "inspectorCall" /\ last'.op = "completed") =>
            /\ Len(run'.reports) = Len(run.reports) + 1
            /\ run'.reports[Len(run'.reports)].flow_name
                 = run.endpointProfiles[run.inspectionInputs[run.flow].endpoint] ]_vars

\* a report was returned for a reply that named another flow
C13_Witness ==
  /\ last.op = "completed"
  /\ Len(run.reports) > 0
  /\ run.reports[Len(run.reports)].flow_name # last.ret

(***************************************************************************)
(* The response parsers of the three agents, and ParseSpec: each parser    *)
(* applied to a reply of the model.                                        *)
(*                                                                         *)
(* A reply is the text of a completion: without a {...} part, with one     *)
(* that JSON.parse rejects, or with a JSON object, of which the model      *)
(* keeps the status and the set of fields that are present with a value    *)
(* the parser's test accepts (truthy, or an array where Array.isArray is   *)
(* asked).                                                                 *)
(***************************************************************************)
SentinelStatuses == {"pick_endpoint", "tracing_endpoint", "completed", "not_found"}

GuardianStatuses == {"completed", "error"}

InspectorStatuses == {"completed", "error"}

\* the status of the object: a declared value, another string, a falsy value
\* (null, "", 0), or no status at all
ReplyStatuses ==
  SentinelStatuses \cup {"error", "some other status", "falsy", "absent"}

ResultFields ==
  { "result.flow_name",
    "result.required_controls", "result.recommended_controls", "result.references",
    "result.implemented", "result.missing", "result.auto_handled", "result.summary" }

ReplyFields ==
  {"file_to_read_next", "endpoint_being_traced", "result", "message"} \cup ResultFields

Replies ==
  { [text |-> t, status |-> "absent", has |-> {}] : t \in {"no json", "bad json"} }
    \cup { [text |-> "json", status |-> st, has |-> h] :
             st \in ReplyStatuses,
             h \in { f \in SUBSET ReplyFields :
                       (f \cap ResultFields # {}) => "result" \in f } }

\* what a parser does with a reply: it returns the object, or throws
Parsed(reply) == [ok |-> TRUE, status |-> reply.status, error |-> "none"]

Throw(error) == [ok |-> FALSE, status |-> "none", error |-> error]

\* the first field of the sequence that the reply lacks, reported by its message
RECURSIVE FirstMissing(_, _, _)
FirstMissing(reply, fields, else) ==
  IF fields = << >>
    THEN else
    ELSE IF Head(fields) \notin reply.has
           THEN Throw(Head(fields))
           ELSE FirstMissing(reply, Tail(fields), else)

parseAgentResponse(reply) ==
  IF reply.text = "no json"
    THEN Throw("No JSON found in agent response")
    ELSE IF reply.text = "bad json"
           THEN Throw("Failed to parse JSON")
           ELSE IF reply.status \in {"absent", "falsy"}
                  THEN Throw("Response missing 'status' field")
                  ELSE CASE reply.status = "pick_endpoint" ->
                              FirstMissing(reply, <<"file_to_read_next">>, Parsed(reply))
                         [] reply.status = "tracing_endpoint" ->
                              FirstMissing(reply, <<"file_to_read_next", "endpoint_being_traced">>,
                                           Parsed(reply))
                         [] reply.status = "completed" ->
                              FirstMissing(reply, <<"result">>, Parsed(reply))
                         [] reply.status = "not_found" -> Parsed(reply)
                         [] OTHER -> Throw("Unknown status")

\* a parser that returns whatever JSON object the reply holds
parseWithoutValidation(reply) ==
  IF reply.text = "json" THEN Parsed(reply) ELSE Throw("Failed to parse JSON")

parseGuardianResponse(reply) ==
  IF reply.text = "no json"
    THEN Throw("No JSON found in agent response")
    ELSE IF reply.text = "bad json"
           THEN Throw("Failed to parse JSON")
           ELSE IF reply.status \in {"absent", "falsy"}
                  THEN Throw("Response missing 'status' field")
                  ELSE CASE reply.status = "completed" ->
                              FirstMissing(reply,
                                <<"result", "result.flow_name", "result.required_controls",
                                  "result.recommended_controls", "result.references">>,
                                Parsed(reply))
                         [] reply.status = "error" -> Parsed(reply)
                         [] OTHER -> Throw("Unknown status")

parseInspectorResponse(reply) ==
  IF reply.text = "no json"
    THEN Throw("No JSON found in agent response")
    ELSE IF reply.text = "bad json"
           THEN Throw("Failed to parse JSON")
           ELSE IF reply.status \in {"absent", "falsy"}
                  THEN Throw("Response missing 'status' field")
                  ELSE CASE reply.status = "completed" ->
                              FirstMissing(reply,
                                <<"result", "result.flow_name", "result.implemented",
                                  "result.missing", "result.auto_handled", "result.summary">>,
                                Parsed(reply))
                         [] reply.status = "error" -> Parsed(reply)
                         [] OTHER -> Throw("Unknown status")

ParseInit ==
  /\ job = createJob
  /\ events = << >>
  /\ now = 1
  /\ last = Last("none", Throw("none"))
  /\ pc = "parse"
  /\ run \in Replies
  /\ stream = NoStream

ParseCall(op, ret) ==
  /\ pc = "parse"
  /\ last' = Last(op, ret)
  /\ UNCHANGED <<job, events, now, pc, run, stream>>

ParseSentinel ==
  ParseCall("parseAgentResponse", parseAgentResponse(run))

ParseGuardian ==
  ParseCall("parseGuardianResponse", parseGuardianResponse(run))

ParseInspector ==
  ParseCall("parseInspectorResponse", parseInspectorResponse(run))

ParseNext ==
  \/ ParseSentinel
  \/ ParseGuardian
  \/ ParseInspector

ParseSpec == ParseInit /\ [][ParseNext]_vars

(***************************************************************************)
(* Properties of the response parsers (ParseSpec)                          *)
(***************************************************************************)

\* the statuses a parser's agent declares
DeclaredStatuses(op) ==
  CASE op = "parseAgentResponse" -> SentinelStatuses
    [] op = "parseGuardianResponse" -> GuardianStatuses
    [] op = "parseInspectorResponse" -> InspectorStatuses
    [] OTHER -> {}

\* C14: a reply whose status is not one of the agent's declared values, or
\* that has no status, is rejected by the agent's parser (it throws) and is
\* never returned as a response.
C14_UnknownStatusRejected ==
  (last.op # "none" /\ run.status \notin DeclaredStatuses(last.op)) =>
     last.ret.ok = FALSE

\* the checklist parser has rejected a JSON object with a discovery status
C14_Witness ==
  /\ last.op = "parseGuardianResponse"
  /\ run.text = "json"
  /\ run.status = "pick_endpoint"
  /\ last.ret.ok = FALSE
  /\ last.ret.error = "Unknown status"

\* the fields a variant requires
RequiredFields(op, status) ==
  CASE status \in {"pick_endpoint", "tracing_endpoint"} -> {"file_to_read_next"}
    [] status = "error" -> {"message"}
    [] status = "completed" /\ op = "parseAgentResponse" ->
         {"result", "result.flow_name"}
    [] status = "completed" /\ op = "parseGuardianResponse" ->
         {"result", "result.flow_name", "result.required_controls",
          "result.recommended_controls", "result.references"}
    [] status = "completed" /\ op = "parseInspectorResponse" ->
         {"result", "result.flow_name", "result.implemented", "result.missing",
          "result.auto_handled", "result.summary"}
    [] OTHER -> {}

\* C15: a JSON object with a declared status that lacks a field its variant
\* requires is rejected by the parser, never accepted as a response.
C15_MissingFieldRejected ==
  ( /\ last.op # "none"
    /\ run.text = "json"
    /\ run.status \in DeclaredStatuses(last.op)
    /\ ~ (RequiredFields(last.op, run.status) \subseteq run.has) ) =>
     last.ret.ok = FALSE

(***************************************************************************)
(* Properties of the retry loops and of the discovery trace (Spec)         *)
(***************************************************************************)

UnitCalls == {"guardianCall", "inspectorCall"}

\* the retry budget of the unit whose request is in flight
MaxRetriesAt(p) ==
  IF p = "guardianCall" THEN GUARDIAN_MAX_RETRIES ELSE INSPECTOR_MAX_RETRIES

\* the flow_name of the unit whose request is in flight
UnitFlowName ==
  IF pc = "guardianCall"
    THEN run.endpointProfiles[run.flow]
    ELSE run.endpointProfiles[run.inspectionInputs[run.flow].endpoint]

\* the transcript of one unit: the entry archived for the unit in flight
UnitTranscript(retries, success) ==
  << [flow_name |-> UnitFlowName, retries |-> retries, success |-> success] >>

\* C16: each failed attempt of a checklist or inspection unit raises the
\* unit's retry counter by one, a request is in flight only while the counter
\* is below the budget N (so a unit issues at most N requests), and a valid
\* completed reply after k < N failed attempts makes the unit succeed with
\* the transcript entry {retries = k, success = true}.
C16_RetriesThenSuccess ==
  [][ (pc \in UnitCalls) =>
        /\ run.retries < MaxRetriesAt(pc)
        /\ (last'.op \in {"unparseable", "throws", "error reply"}
              /\ job.abortController # "aborted") =>
             IF run.retries + 1 < MaxRetriesAt(pc)
               THEN /\ pc' = pc
                    /\ run'.flow = run.flow
                    /\ run'.retries = run.retries + 1
                    /\ run'.requests = 1
                    /\ run'.analysisHistory = << >>
               ELSE run'.analysisHistory = UnitTranscript(MaxRetriesAt(pc), FALSE)
        /\ last'.op = "completed" =>
             run'.analysisHistory = UnitTranscript(run.retries, TRUE) ]_vars

\* a unit has succeeded on its third request, after two parse failures
C16_Witness ==
  /\ last.op = "completed"
  /\ Len(run.analysisHistory) = 1
  /\ run.analysisHistory[1].retries = 2
  /\ run.analysisHistory[1].success
  /\ Len(run.checklists) = 1

\* the number of units of the stage whose request is in flight
UnitsAt(p) ==
  IF p = "guardianCall" THEN Len(run.endpointProfiles) ELSE Len(run.inspectionInputs)

\* C17: when a checklist or inspection unit exhausts its retry budget, the
\* unit adds no checklist or report, the stage goes on with the next unit
\* (or, after the last unit, to the end of the stage); the job never fails,
\* and a run that ends uncancelled ends completed with its result, which may
\* count fewer checklists or reports than endpoints.
C17_ExhaustedUnitIsSkipped ==
  [][ /\ ( /\ pc \in UnitCalls
           /\ run.retries + 1 = MaxRetriesAt(pc)
           /\ last'.op \in {"unparseable", "throws", "error reply"}
           /\ job.abortController # "aborted" ) =>
         ( /\ run'.checklists = run.checklists
           /\ run'.reports = run.reports
           /\ job'.status = job.status
           /\ IF run.flow < UnitsAt(pc)
                THEN /\ pc' = pc
                     /\ run'.flow = run.flow + 1
                     /\ run'.retries = 0
                     /\ run'.requests = 1
                ELSE pc' = (IF pc = "guardianCall" THEN "guardianSave" ELSE "inspectorSave") )
      /\ job'.status # "failed"
      /\ job'.error = NoError
      /\ (pc' = "done" /\ job'.status # "cancelled") =>
            /\ job'.status = "completed"
            /\ job'.result = AnalysisResult(run') ]_vars

\* a job of two endpoints has completed with one checklist, the first unit
\* having used up its retries
C17_Witness ==
  /\ pc = "done"
  /\ job.status = "completed"
  /\ run.cancels = 0
  /\ run.faults >= GUARDIAN_MAX_RETRIES
  /\ Len(run.endpointProfiles) = 2
  /\ Len(run.securityChecklists) = 1
  /\ job.result.securityChecklistsGenerated = 1
  /\ job.result.endpointsFound = 2

\* C18: every endpoint trace ends after a bounded number of model calls
\* whatever the model replies.  The turn budget maxDepth is the only budget
\* findAndTraceEndpoint keeps, so the bound it could provide is maxDepth calls
\* for one trace.
C18_TraceCallsBounded ==
  run.traceCalls <= maxDepth

\* the replies of the conversation that were parsed: the assistant messages
RECURSIVE ParsedReplies(_)
ParsedReplies(h) ==
  IF h = << >>
    THEN 0
    ELSE ParsedReplies(Tail(h)) + (IF Head(h).role = "assistant" THEN 1 ELSE 0)

\* C19: a parse failure of a discovery trace leaves the depth counter and the
\* conversation history as they were before the failed call; while a call is
\* awaited the depth counter counts that call and the replies parsed so far,
\* and it never exceeds maxDepth.
C19_ParseFailureConsumesNoBudget ==
  [][ /\ ( /\ pc = "sentinelCall"
           /\ last'.op = "unparseable"
           /\ job.abortController # "aborted" ) =>
         ( /\ pc' = "sentinelCall"
           /\ run'.depth = run.depth
           /\ run'.conversationHistory = run.conversationHistory
           /\ run'.endpoints = run.endpoints )
      /\ (pc' = "sentinelCall") =>
            /\ run'.depth = ParsedReplies(run'.conversationHistory) + 1
            /\ run'.depth <= maxDepth ]_vars

\* the second call of a trace returned an unparseable reply and is repeated
C19_Witness ==
  /\ pc = "sentinelCall"
  /\ last.op = "unparseable"
  /\ run.depth = 2
  /\ ParsedReplies(run.conversationHistory) = 1
  /\ run.traceCalls = 3

\* C20: a trace that used up its depth budget without a completed reply is
\* dropped alone: the discovery loop starts another trace, with a fresh
\* conversation and the endpoints recorded so far.
C20_ExhaustedTraceIsDropped ==
  [][ ( /\ pc = "sentinelCall"
        /\ run.depth = maxDepth
        /\ last'.op = "reply"
        /\ last'.ret \in {"pick_endpoint", "tracing_endpoint"}
        /\ job.abortController # "aborted" ) =>
      ( /\ pc' = "sentinelCall"
        /\ run'.depth = 1
        /\ run'.conversationHistory = InitialHistory
        /\ run'.endpoints = run.endpoints ) ]_vars

(***************************************************************************)
(* TraceSpec: the discovery agent alone, with its file set.  run holds the *)
(* locals of analyze and findAndTraceEndpoint; a path is the sequence of   *)
(* its characters.                                                         *)
(***************************************************************************)
SENTINEL_MAX_SIMILAR_FILES == 5

FileEntry(path, content) == [path |-> path, content |-> content]

\* the file sets of the jobs: a small project with an empty file, and a
\* project with more files of one name than a "File not found" turn lists
FilesSmall ==
  << FileEntry(<<"a", "/", "b">>, "text of a/b"),
     FileEntry(<<"b">>, "text of b"),
     FileEntry(<<"A">>, "") >>

FilesMany ==
  << FileEntry(<<"a">>, "text 1"),
     FileEntry(<<"b">>, "text 2"),
     FileEntry(<<"a", "a">>, "text 3"),
     FileEntry(<<"a", "b">>, "text 4"),
     FileEntry(<<"b", "a">>, "text 5"),
     FileEntry(<<"a", "/", "a">>, "text 6"),
     FileEntry(<<"A", "b">>, "text 7") >>

FileSets == {FilesSmall, FilesMany}

\* the paths a reply asks for
RequestPaths ==
  { <<"/", "b">>, <<"A">>, <<"b", "b">> }

\* the files_to_read_later of a tracing_endpoint reply
LaterLists ==
  { << >>, << <<"b">>, <<"b", "b">> >> }

\* the maxDepth option the agent is constructed with: options.maxDepth
MaxDepths == {maxDepth, maxDepth + 1}

toLowerCase(str) ==
  [i \in 1..Len(str) |-> IF str[i] = "A" THEN "a" ELSE str[i]]

\* str.includes(part)
includes(str, part) ==
  \E i \in 0..(Len(str) - Len(part)) : SubSeq(str, i + 1, i + Len(part)) = part

\* str.split("/")
RECURSIVE split(_)
split(str) ==
  IF \A i \in 1..Len(str) : str[i] # "/"
    THEN << str >>
    ELSE LET i == CHOOSE k \in 1..Len(str) :
                    str[k] = "/" /\ \A m \in 1..(k - 1) : str[m] # "/"
         IN  << SubSeq(str, 1, i - 1) >> \o split(SubSeq(str, i + 1, Len(str)))

\* path.replace(/^\.?\//, "")
normalizePath(path) ==
  IF Len(path) >= 2 /\ path[1] = "." /\ path[2] = "/"
    THEN SubSeq(path, 3, Len(path))
    ELSE IF Len(path) >= 1 /\ path[1] = "/"
           THEN SubSeq(path, 2, Len(path))
           ELSE path

\* files.find(...): the first file of that path, or none
findFileContent(files, filePath) ==
  LET Same(f) == normalizePath(f.path) = normalizePath(filePath) \/ f.path = filePath
      found == SelectSeq(files, Same)
  IN  IF found = << >>
        THEN [found |-> FALSE, content |-> ""]
        ELSE [found |-> TRUE, content |-> found[1].content]

\* whether a file of the set matches the requested path: its lowercased path
\* includes the requested name or one of the requested path's parts
Similar(f, searchPath) ==
  LET searchParts == split(toLowerCase(searchPath))
      searchName == searchParts[Len(searchParts)]
      lowerPath == toLowerCase(f.path)
  IN  \/ includes(lowerPath, searchName)
      \/ \E k \in 1..Len(searchParts) : includes(lowerPath, searchParts[k])

\* a list of similar files that is not cut
findSimilarFilesUncut(files, searchPath) ==
  LET Test(f) == Similar(f, searchPath)
      matching == SelectSeq(files, Test)
  IN  [k \in 1..Len(matching) |-> matching[k].path]

\* files.filter(...).slice(0, SENTINEL_MAX_SIMILAR_FILES).map(f => f.path)
findSimilarFiles(files, searchPath) ==
  LET Test(f) == Similar(f, searchPath)
      matching == SelectSeq(files, Test)
      sliced == SubSeq(matching, 1, Min(Len(matching), SENTINEL_MAX_SIMILAR_FILES))
  IN  [k \in 1..Len(sliced) |-> sliced[k].path]

\* one turn of the discovery conversation
Turn(role, kind, path, text, similar) ==
  [role |-> role, kind |-> kind, path |-> path, text |-> text, similar |-> similar]

InitialPrompt == Turn("user", "initial prompt", << >>, "", << >>)

AssistantTurn == Turn("assistant", "reply", << >>, "", << >>)

DepthWarning == Turn("user", "maximum depth warning", << >>, "", << >>)

FileTurn(filePath, content) == Turn("user", "file", filePath, content, << >>)

AgainTurn(filePath, content) == Turn("user", "already read", filePath, content, << >>)

NotFoundTurn(files, filePath) ==
  Turn("user", "file not found", filePath, "", findSimilarFiles(files, filePath))

\* findAndTraceEndpoint: its locals before the loop
TraceStart(t) ==
  [t EXCEPT !.conversationHistory = << InitialPrompt >>,
            !.filesRead = {},
            !.filesToRead = << >>,
            !.depth = 0]

\* findAndTraceEndpoint returned null: analyze leaves its loop and returns
TraceReturnNull(t) ==
  [t EXCEPT !.pc = "returned"]

\* while (depth < this.maxDepth) { depth++; this.checkCancellation(); await generateText
TraceWhile(t) ==
  IF t.depth < t.maxDepth
    THEN IF t.aborted
           THEN [t EXCEPT !.pc = "thrown"]
           ELSE [t EXCEPT !.depth = @ + 1, !.pc = "sentinelCall"]
    ELSE TraceReturnNull(t)

\* conversationHistory.push({ role: "assistant", content: text })
TraceReceived(t) ==
  [t EXCEPT !.conversationHistory = Append(@, AssistantTurn)]

\* readFileAndRespond on the locals t: the locals it leaves, and what it returns
readFileAndRespondTo(t, filePath) ==
  IF \E e \in t.filesRead : e.path = filePath
    THEN LET e == CHOOSE e \in t.filesRead : e.path = filePath
         IN  [t |-> [t EXCEPT !.conversationHistory = Append(@, AgainTurn(filePath, e.content))],
              ok |-> TRUE]
    ELSE LET file == findFileContent(t.files, filePath)
         IN  IF ~file.found \/ file.content = ""
               THEN [t |-> [t EXCEPT !.conversationHistory =
                                        Append(@, NotFoundTurn(t.files, filePath))],
                     ok |-> FALSE]
               ELSE [t |-> [t EXCEPT !.filesRead = @ \cup {FileEntry(filePath, file.content)},
                                     !.conversationHistory =
                                        Append(@, FileTurn(filePath, file.content))],
                     ok |-> TRUE]

\* case "not_found"
TraceNotFound(t) ==
  TraceReturnNull(TraceReceived(t))

\* case "pick_endpoint"
TracePick(t, reply) ==
  LET r == readFileAndRespondTo(TraceReceived(t), reply.file_to_read_next)
  IN  IF ~r.ok THEN TraceReturnNull(r.t) ELSE TraceWhile(r.t)

\* filesToRead.push(...files_to_read_later.filter(f => !filesRead.has(f)))
QueueLater(t, later) ==
  LET Unread(f) == ~ \E e \in t.filesRead : e.path = f
  IN  [t EXCEPT !.filesToRead = @ \o SelectSeq(later, Unread)]

\* a tracing turn that leaves the queue alone when the file is missing
TraceTracingWithoutQueue(t, reply) ==
  LET t1 == QueueLater(TraceReceived(t), reply.files_to_read_later)
      r1 == readFileAndRespondTo(t1, reply.file_to_read_next)
      t3 == IF t.depth + 1 >= t.maxDepth
              THEN [r1.t EXCEPT !.conversationHistory = Append(@, DepthWarning)]
              ELSE r1.t
  IN  TraceWhile(t3)

\* a tracing turn that warns only once the budget is used up
TraceTracingWarningLate(t, reply) ==
  LET t1 == QueueLater(TraceReceived(t), reply.files_to_read_later)
      r1 == readFileAndRespondTo(t1, reply.file_to_read_next)
      t2 == IF ~r1.ok /\ r1.t.filesToRead # << >>
              THEN readFileAndRespondTo([r1.t EXCEPT !.filesToRead = Tail(@)],
                                        Head(r1.t.filesToRead)).t
              ELSE r1.t
      t3 == IF t.depth >= t.maxDepth
              THEN [t2 EXCEPT !.conversationHistory = Append(@, DepthWarning)]
              ELSE t2
  IN  TraceWhile(t3)

\* case "tracing_endpoint"
TraceTracing(t, reply) ==
  LET t1 == QueueLater(TraceReceived(t), reply.files_to_read_later)
      r1 == readFileAndRespondTo(t1, reply.file_to_read_next)
      t2 == IF ~r1.ok /\ r1.t.filesToRead # << >>
              THEN readFileAndRespondTo([r1.t EXCEPT !.filesToRead = Tail(@)],
                                        Head(r1.t.filesToRead)).t
              ELSE r1.t
      t3 == IF t.depth + 1 >= t.maxDepth
              THEN [t2 EXCEPT !.conversationHistory = Append(@, DepthWarning)]
              ELSE t2
  IN  TraceWhile(t3)

\* case "completed", and analyze: the result is recorded and, after
\* checkCancellation, the next trace starts
TraceCompleted(t, entry_point) ==
  LET t1 == [TraceReceived(t) EXCEPT !.endpoints = Append(@, entry_point)]
  IN  IF t1.aborted
        THEN [t1 EXCEPT !.pc = "thrown"]
        ELSE TraceWhile(TraceStart(t1))

\* parseAgentResponse threw
TraceParseFailure(t) ==
  LET t1 == TraceReceived(t)
      h == t1.conversationHistory
  IN  TraceWhile([t1 EXCEPT !.depth = @ - 1,
                            !.conversationHistory = SubSeq(h, 1, Len(h) - 1)])

\* a reply of the model, as parseAgentResponse returns it
Reply(status, file_to_read_next, files_to_read_later) ==
  [status |-> status,
   file_to_read_next |-> file_to_read_next,
   files_to_read_later |-> files_to_read_later]

NoReply == Reply("none", << >>, << >>)

TraceInit ==
  /\ job = createJob
  /\ events = << >>
  /\ now = 1
  /\ stream = NoStream
  /\ last = Last("analyze", NoReply)
  /\ pc = "sentinelCall"
  /\ \E files \in FileSets, depths \in MaxDepths :
       run = TraceWhile(TraceStart([files |-> files,
                                    maxDepth |-> depths,
                                    endpoints |-> << >>,
                                    aborted |-> FALSE,
                                    pc |-> "start",
                                    conversationHistory |-> << >>,
                                    filesRead |-> {},
                                    filesToRead |-> << >>,
                                    depth |-> 0]))

\* the block that follows a reply: t1 is what it leaves
TraceStep(op, reply, t1) ==
  /\ run' = t1
  /\ pc' = t1.pc
  /\ last' = Last(op, reply)
  /\ UNCHANGED <<job, events, now, stream>>

TraceReplyNotFound ==
  /\ pc = "sentinelCall"
  /\ TraceStep("reply", Reply("not_found", << >>, << >>), TraceNotFound(run))

TraceReplyPick ==
  /\ pc = "sentinelCall"
  /\ \E path \in RequestPaths :
       TraceStep("reply", Reply("pick_endpoint", path, << >>),
                 TracePick(run, Reply("pick_endpoint", path, << >>)))

TraceReplyTracing ==
  /\ pc = "sentinelCall"
  /\ \E path \in RequestPaths, later \in LaterLists :
       TraceStep("reply", Reply("tracing_endpoint", path, later),
                 TraceTracing(run, Reply("tracing_endpoint", path, later)))

TraceReplyCompleted ==
  /\ pc = "sentinelCall"
  /\ Len(run.endpoints) < MaxEndpoints
  /\ \E entry_point \in {<<"/", "b">>} :
       TraceStep("reply", Reply("completed", entry_point, << >>),
                 TraceCompleted(run, entry_point))

TraceReplyUnparseable ==
  /\ pc = "sentinelCall"
  /\ TraceStep("unparseable", NoReply, TraceParseFailure(run))

\* generateText rejects: nothing in analyze catches it
TraceCallThrows ==
  /\ pc = "sentinelCall"
  /\ TraceStep("throws", NoReply, [run EXCEPT !.pc = "thrown"])

\* the cancel route aborts the signal while a request is in flight
TraceAbort ==
  /\ pc = "sentinelCall"
  /\ ~run.aborted
  /\ run' = [run EXCEPT !.aborted = TRUE]
  /\ last' = Last("abort", NoReply)
  /\ UNCHANGED <<job, events, now, pc, stream>>

TraceNext ==
  \/ TraceReplyNotFound
  \/ TraceReplyPick
  \/ TraceReplyTracing
  \/ TraceReplyCompleted
  \/ TraceReplyUnparseable
  \/ TraceCallThrows
  \/ TraceAbort

TraceSpec == TraceInit /\ [][TraceNext]_vars

(***************************************************************************)
(* Claims on the discovery trace and its file set                          *)
(***************************************************************************)
\* a file of the set has the requested path, a leading "./" or "/" put aside
InFileSet(files, filePath) ==
  \E k \in 1..Len(files) : normalizePath(files[k].path) = normalizePath(filePath)

\* the content of the first file of the set that has the requested path
ContentOf(files, filePath) ==
  LET k == CHOOSE k \in 1..Len(files) :
              /\ normalizePath(files[k].path) = normalizePath(filePath)
              /\ \A m \in 1..(k - 1) :
                    normalizePath(files[m].path) # normalizePath(filePath)
  IN  files[k].content

\* the step is the handling of a parsed reply of the given status
HandlesReply(status) ==
  /\ pc = "sentinelCall"
  /\ last'.op = "reply"
  /\ last'.ret.status = status

\* the trace goes on with a further completion request
AsksAgain ==
  (run.depth < run.maxDepth /\ ~run.aborted) =>
     (pc' = "sentinelCall" /\ run'.depth = run.depth + 1)

\* C21: a pick_endpoint reply that names a file missing from the file set
\* does not end the trace: the reply and a "File not found" user turn are
\* appended to the conversation and, budget and cancellation permitting, a
\* further completion is requested.
C21_MissingPickIsAskedAgain ==
  [][ ( /\ HandlesReply("pick_endpoint")
        /\ ~InFileSet(run.files, last'.ret.file_to_read_next) ) =>
      ( /\ run'.conversationHistory =
             run.conversationHistory \o
               << AssistantTurn, NotFoundTurn(run.files, last'.ret.file_to_read_next) >>
        /\ AsksAgain ) ]_vars

\* the lowercased path includes the last part of the lowercased requested
\* path or one of its parts between slashes
MatchesNameOrSegment(path, searchPath) ==
  LET parts == split(toLowerCase(searchPath))
  IN  \E k \in 1..Len(parts) : includes(toLowerCase(path), parts[k])

\* C22: a pick_endpoint or tracing_endpoint reply that asks for a path missing
\* from the file set adds a user turn that lists at most 5 files of the set,
\* each matching the name or a segment of the requested path, and the list of
\* discovered endpoints is left as it was.
C22_SimilarFilesListed ==
  [][ ( /\ pc = "sentinelCall"
        /\ last'.op = "reply"
        /\ last'.ret.status \in {"pick_endpoint", "tracing_endpoint"}
        /\ ~InFileSet(run.files, last'.ret.file_to_read_next) ) =>
      LET turn == run'.conversationHistory[Len(run.conversationHistory) + 2]
      IN  /\ turn.role = "user"
          /\ turn.kind = "file not found"
          /\ turn.path = last'.ret.file_to_read_next
          /\ Len(turn.similar) <= 5
          /\ \A i \in 1..Len(turn.similar) :
                /\ \E k \in 1..Len(run.files) : run.files[k].path = turn.similar[i]
                /\ MatchesNameOrSegment(turn.similar[i], turn.path)
          /\ run'.endpoints = run.endpoints ]_vars

\* a "File not found" turn lists 5 files of a set in which more files match
C22_Witness ==
  /\ last.op = "reply"
  /\ last.ret.status = "tracing_endpoint"
  /\ \E k \in 1..Len(run.conversationHistory) :
       /\ run.conversationHistory[k].kind = "file not found"
       /\ Len(run.conversationHistory[k].similar) = 5
       /\ Len(findSimilarFilesUncut(run.files, run.conversationHistory[k].path)) > 5

\* C23: when the first reply of a trace is pick_endpoint with a path of the
\* file set, the conversation continues with a user turn that holds the
\* file's content, and one depth turn is used: the second call of the trace
\* is issued with depth 2.
C23_PickedFileIsServed ==
  [][ ( /\ HandlesReply("pick_endpoint")
        /\ run.conversationHistory = << InitialPrompt >>
        /\ InFileSet(run.files, last'.ret.file_to_read_next) ) =>
      ( /\ run'.conversationHistory =
             << InitialPrompt, AssistantTurn,
                FileTurn(last'.ret.file_to_read_next,
                         ContentOf(run.files, last'.ret.file_to_read_next)) >>
        /\ AsksAgain ) ]_vars

\* the read-later queue once the files of the reply are added to it
QueueAfter(r, later) ==
  LET Unread(f) == ~ \E e \in r.filesRead : e.path = f
  IN  r.filesToRead \o SelectSeq(later, Unread)

Warnings(h) ==
  Cardinality({k \in 1..Len(h) : h[k] = DepthWarning})

\* the turns of the depth budget that remain once the awaited reply is handled
TurnsLeft(r) == r.maxDepth - r.depth

\* C31: when a tracing_endpoint reply is handled and exactly one turn of the
\* depth budget remains, one warning user turn is appended, and it is the last
\* turn of the conversation the next completion request is sent with; while
\* more than one turn remains no step appends a warning.
C31_WarningOnLastTurn ==
  [][ /\ (HandlesReply("tracing_endpoint") /\ TurnsLeft(run) = 1) =>
            LET h == run'.conversationHistory
            IN  /\ h[Len(h)] = DepthWarning
                /\ Warnings(h) = Warnings(run.conversationHistory) + 1
                /\ ~run.aborted => (pc' = "sentinelCall" /\ TurnsLeft(run') = 0)
      /\ (pc = "sentinelCall" /\ TurnsLeft(run) > 1) =>
            Warnings(run'.conversationHistory) <= Warnings(run.conversationHistory) ]_vars

\* an agent of budget 3 handled two tracing replies: no warning followed the
\* first, the warning follows the second, and the third call is awaited
C31_Witness ==
  /\ pc = "sentinelCall"
  /\ last.op = "reply"
  /\ last.ret.status = "tracing_endpoint"
  /\ run.maxDepth = 3
  /\ run.depth = 3
  /\ Len(run.conversationHistory) = 6
  /\ run.conversationHistory[3].kind = "file"
  /\ run.conversationHistory[4] = AssistantTurn
  /\ run.conversationHistory[6] = DepthWarning
  /\ Warnings(run.conversationHistory) = 1

\* C32: a pick_endpoint or tracing_endpoint reply that asks for a path of the
\* file set (a leading "./" or "/" put aside) is answered with a user turn
\* that holds the content of that file, whatever the content is, the empty
\* content included, and never with a "File not found" turn.
C32_LookupSucceedsForEveryFile ==
  [][ ( /\ pc = "sentinelCall"
        /\ last'.op = "reply"
        /\ last'.ret.status \in {"pick_endpoint", "tracing_endpoint"}
        /\ InFileSet(run.files, last'.ret.file_to_read_next) ) =>
      LET turn == run'.conversationHistory[Len(run.conversationHistory) + 2]
      IN  /\ turn.role = "user"
          /\ turn.kind \in {"file", "already read"}
          /\ turn.path = last'.ret.file_to_read_next
          /\ turn.text = ContentOf(run.files, last'.ret.file_to_read_next) ]_vars

(***************************************************************************)
(* Claims on the stages of a run                                           *)
(***************************************************************************)
\* the log of the job holds a message of the template
Logged(j, tpl) ==
  \E k \in 1..Len(j.logs) : j.logs[k].message.tpl = tpl

\* C24: when discovery ends with no endpoint, the block that follows the
\* agent's return issues no completion request, logs both later stages as
\* skipped with progress 65 and then 95, and completes the job with a result
\* of 0 endpoints, 0 checklists and 0 reports; a checklist or inspection
\* request is only ever awaited in a run that has endpoints.
C24_NoEndpointsSkipsStages ==
  [][ /\ ( /\ pc = "sentinelSave"
           /\ last'.op \in {"saved", "save failed"}
           /\ run.endpoints = << >>
           /\ job.status = "running"
           /\ job.abortController # "aborted" ) =>
         ( /\ pc' = "done"
           /\ run'.requests = 0
           /\ ProgressValuesOf(events') = << 35, 65, 95, 100 >>
           /\ Logged(job', "Guardian Agent: Skipped (no endpoints discovered)")
           /\ Logged(job', "Inspector Agent: Skipped (no checklists available)")
           /\ job'.status = "completed"
           /\ job'.result = [ endpointsFound |-> 0,
                              securityChecklistsGenerated |-> 0,
                              securityReportsGenerated |-> 0 ] )
      /\ (pc' \in {"guardianCall", "inspectorCall"}) =>
            Len(run'.endpointProfiles) > 0 ]_vars

\* the first reply of the model was not_found and the job has completed
C24_Witness ==
  /\ pc = "done"
  /\ last.op = "saved"
  /\ run.endpoints = << >>
  /\ run.faults = 0
  /\ run.cancels = 0
  /\ job.status = "completed"
  /\ job.result.endpointsFound = 0
  /\ job.progress.current = 100

\* the awaited call of a job that runs and is not cancelled fails with a
\* transport error
TransportError ==
  /\ pc \in {"sentinelCall", "guardianCall", "inspectorCall"}
  /\ last'.op = "throws"
  /\ job.status = "running"
  /\ job.abortController # "aborted"

\* C25: in every agent a transport error of a model call is handled within
\* the stage: the discovery stage goes on (or ends in its own way) with the
\* endpoints it has recorded, and a checklist or inspection unit is retried,
\* or given up for the next unit once its retries are used.
C25_TransportErrorIsRetried ==
  [][ TransportError =>
        IF pc = "sentinelCall"
          THEN /\ pc' \in {"sentinelCall", "sentinelSave"}
               /\ run'.endpoints = run.endpoints
          ELSE /\ pc' \in {pc, IF pc = "guardianCall" THEN "guardianSave" ELSE "inspectorSave"}
               /\ run'.checklists = run.checklists
               /\ run'.reports = run.reports
               /\ (run.retries + 1 < MaxRetriesAt(pc)) =>
                     (pc' = pc /\ run'.flow = run.flow /\ run'.retries = run.retries + 1) ]_vars

\* the step ends a conversation of an agent: a terminal reply, the end of the
\* depth or retry budget, or a model call that threw out of the agent
EndsConversation ==
  IF pc = "sentinelCall"
    THEN \/ last'.op = "throws"
         \/ last'.op = "reply" /\ last'.ret \in {"not_found", "completed"}
         \/ last'.op = "reply" /\ pc' # "sentinelCall"
    ELSE \/ last'.op = "completed"
         \/ /\ last'.op \in {"unparseable", "throws", "error reply"}
            /\ run.retries + 1 = MaxRetriesAt(pc)

\* C26: a step that ends a conversation appends exactly one transcript to the
\* agent's archive, and a step that continues the conversation appends none.
C26_ArchivedExactlyOnce ==
  [][ ( /\ pc \in {"sentinelCall", "guardianCall", "inspectorCall"}
        /\ last'.op \in {"reply", "completed", "unparseable", "throws", "error reply"}
        /\ job.abortController # "aborted" ) =>
      ( Len(run'.tracingHistory) + Len(run'.analysisHistory) =
          IF EndsConversation THEN 1 ELSE 0 ) ]_vars

\* the rank of a position of the run in the order of the stages
StageRank(p) ==
  CASE p = "start" -> 0
    [] p \in {"sentinelCall", "sentinelSave"} -> 1
    [] p \in {"guardianCall", "guardianSave"} -> 2
    [] p \in {"inspectorCall", "inspectorSave"} -> 3
    [] OTHER -> 4

\* C27: an exception of an agent stage that is not a cancellation never fails
\* the job: it is logged as a warning, the later stages run or are skipped and
\* the job completes with a result; the job never has status failed, and once
\* the signal is aborted the runner issues no request and enters no later
\* stage: it leaves the stage it is in for its end, the job cancelled.
C27_StageErrorNeverFailsJob ==
  [][ /\ (TransportError /\ pc = "sentinelCall") =>
           ( /\ Logged(job', "Sentinel Agent error:")
             /\ Logged(job', "Guardian Agent: Skipped (no endpoints discovered)")
             /\ Logged(job', "Inspector Agent: Skipped (no checklists available)")
             /\ pc' = "done"
             /\ job'.status = "completed"
             /\ job'.result = AnalysisResult(run') )
      /\ job'.status # "failed"
      /\ job'.error = NoError
      /\ (job.abortController = "aborted") =>
            /\ run'.requests = 0
            /\ job'.status = "cancelled"
            /\ (StageRank(pc') > StageRank(pc)) => pc' = "done" ]_vars

\* the discovery call threw a transport error and the job has completed
C27_Witness ==
  /\ last.op = "throws"
  /\ pc = "done"
  /\ run.cancels = 0
  /\ job.status = "completed"
  /\ Logged(job, "Sentinel Agent error:")
  /\ job.result.endpointsFound = 0

\* C28: a block of the runner issues at most one completion request, and
\* issues one exactly when it ends awaiting a reply, so at most one request
\* is in flight; the position of the run never goes back to an earlier stage;
\* within the checklist and the inspection stage the index of the unit stays
\* or moves to the next unit.
C28_OneRequestInOrder ==
  [][ /\ (last'.op # "cancelJob") =>
            run'.requests =
              (IF pc' \in {"sentinelCall", "guardianCall", "inspectorCall"} THEN 1 ELSE 0)
      /\ StageRank(pc') >= StageRank(pc)
      /\ (pc' = pc /\ pc \in UnitCalls) =>
            /\ run'.flow \in {run.flow, run.flow + 1}
            /\ run'.flow <= UnitsAt(pc)
            /\ run'.endpointProfiles = run.endpointProfiles ]_vars

\* the second inspection unit is awaited, after the first
C28_Witness ==
  /\ pc = "inspectorCall"
  /\ run.flow = 2
  /\ run.requests = 1
  /\ Len(run.reports) = 1
  /\ Len(run.securityChecklists) = 2

\* C29: the endpoint profiles recorded by the discovery stage have pairwise
\* distinct flow names.
C29_FlowNamesDistinct ==
  \A i, k \in 1..Len(run.endpoints) :
    run.endpoints[i] = run.endpoints[k] => i = k

(***************************************************************************)
(* Claims on the status events and the close of the event stream           *)
(***************************************************************************)
\* the data of the last status event of a sequence of events
LastStatusSent(sent) ==
  LET S == {k \in 1..Len(sent) : sent[k].type = "status"}
  IN  sent[CHOOSE k \in S : \A m \in S : m <= k].data

\* C33: a store operation that changes the status of the job sends the
\* subscribed consumer a status event that carries the new status, so the last
\* status event an open stream has sent equals the status of the job, also
\* when the job fails through setError.
C33_StatusChangeIsAnnounced ==
  [][ /\ (stream.state = "open" /\ job'.status # job.status) =>
            \E k \in (Len(stream.sent) + 1)..Len(stream'.sent) :
               stream'.sent[k] = Event("status", job'.status)
      /\ (stream'.state = "open") =>
            LastStatusSent(stream'.sent) = job'.status ]_vars

\* C34: once the job of an open stream has a terminal status, the server
\* ends the stream (unsubscribe and close) without the client disconnecting.
C34_TerminalStatusClosesStream ==
  (stream.state = "open" /\ job.status \in Terminal) ~> (stream.state = "ended")

\* C35: a completed job has its result set; the block that completes the job
\* emits the result event before the completed status event, so a subscribed
\* consumer has been sent the result when the closing timer is armed, and a
\* consumer that opens the stream later is sent the result before the close.
C35_ResultBeforeCompleted ==
  [][ /\ (job'.status = "completed") =>
            /\ job'.result # NoResult
            /\ StreamStart(job', 0).state = "ended"
            /\ StreamStart(job', 0).sent[Len(StreamStart(job', 0).sent)]
                  = Event("result", job'.result)
      /\ (job'.status = "completed" /\ job.status # "completed") =>
            \E i, k \in 1..Len(events') :
              /\ i < k
              /\ events'[i] = Event("result", job'.result)
              /\ events'[k] = Event("status", "completed")
              /\ \A m \in 1..Len(events') :
                    events'[m].type = "status" => m = k
              /\ ~ Deliver([NoStream EXCEPT !.state = "open"], SubSeq(events', 1, i)).timer
              /\ Deliver([NoStream EXCEPT !.state = "open"], events').timer ]_vars

\* a run with one endpoint has completed: the block that completed it
\* emitted the result and then the status
C35_Witness ==
  /\ pc = "done"
  /\ job.status = "completed"
  /\ job.result # NoResult
  /\ job.result.endpointsFound = 1
  /\ \E i, k \in 1..Len(events) :
        /\ i < k
        /\ events[i] = Event("result", job.result)
        /\ events[k] = Event("status", "completed")

\* C36: once the job has a terminal status, announced by its status event,
\* no block emits a further event and the logs and the progress of the job
\* stay as they are.
C36_NothingAfterTerminalStatus ==
  [][ (job.status \in Terminal) =>
        /\ events' = << >>
        /\ job'.logs = << >>
        /\ job'.progress = job.progress ]_vars

(***************************************************************************)
(* Claims on the inputs of the inspection stage                            *)
(***************************************************************************)
\* C37: every inspection input pairs an endpoint with the checklist that was
\* generated from the flow profile of that endpoint, whatever endpoints the
\* discovery stage returned and whatever checklists succeeded.
C37_InputPairsOwnChecklist ==
  \A n \in 1..Len(run.inspectionInputs) :
    run.inspectionInputs[n].checklist.profile = run.inspectionInputs[n].endpoint

(***************************************************************************)
(* Claims on the histories the completion requests are sent with           *)
(***************************************************************************)
\* C38: in the three agents a completion request is awaited with a history
\* that is not empty and whose first and last messages have role user,
\* whatever replies, parse failures, error replies, missing files and
\* transport failures came before.
C38_HistoryStartsAndEndsWithUser ==
  (pc \in {"sentinelCall", "guardianCall", "inspectorCall"}) =>
     /\ run.conversationHistory # << >>
     /\ run.conversationHistory[1].role = "user"
     /\ run.conversationHistory[Len(run.conversationHistory)].role = "user"

\* the third request of a checklist unit is awaited, after an error reply
\* and a transport failure
C38_Witness ==
  /\ pc = "guardianCall"
  /\ last.op = "throws"
  /\ run.retries = 2
  /\ run.requests = 1
  /\ run.conversationHistory =
       << Message("user", "initial prompt"),
          Message("assistant", "reply"),
          Message("user", "Please try again"),
          Message("user", "Your response could not be parsed") >>

(***************************************************************************)
(* Claims on the registry of jobs                                          *)
(***************************************************************************)
\* C39: cleanupOldJobs leaves in the registry every job whose status is
\* pending or running, so no later update of such a job is dropped.
C39_CleanupKeepsActiveJobs ==
  [][ ( /\ last'.op = "cleanupOldJobs"
        /\ pc = "store"
        /\ job.status \in {"pending", "running"} ) =>
      pc' = "store" ]_vars

====
